---- MODULE Spec2Model ----
(***************************************************************************)
(* Simulation core of box-jump (src/script.js): the kinematic body         *)
(* (Player), the per-frame driver (Game.update), scripted motion, trigger  *)
(* dormancy with deferred activation, laser beam clipping, and the level   *)
(* load / restart / play-test operations.                                  *)
(*                                                                         *)
(* Units.  Lengths are tenths of a pixel, velocities tenths of a pixel per *)
(* tick, times milliseconds, mana 1/10000 of a point, hp whole points.     *)
(* With these units every constant of the source is an integer; the only   *)
(* rounding is in the friction product (truncated to a tenth of a pixel).  *)
(***************************************************************************)
EXTENDS Integers, Sequences, FiniteSets, TLC

VARIABLES
    state,          \* Game.state: "play" | "edit" | "shop" | "won"
    isTesting,      \* Game.isTesting
    editorActive,   \* Editor.active
    player,         \* Game.player (Player fields)
    level,          \* Game.currentLevelData
    original,       \* Game.originalLevelData (NoLevel when null)
    levels,         \* LevelManager.levels
    levelIndex,     \* LevelManager.currentLevelIndex
    run,            \* RunManager: runActive, currentStats, modifiers
    pendingIdx,     \* RunManager._pendingNextIdx (next level shown by the shop)
    timers,         \* pending setTimeout callbacks
    playTimer,      \* Game.playTimer (ms)
    collectedGoals, \* Game.collectedGoals
    dt,             \* ms between the previous frame and the next one
    ev,             \* what the last handler did (observation only)
    clock           \* simulated-time stopwatches (observation only)

vars == <<state, isTesting, editorActive, player, level, original, levels,
          levelIndex, run, pendingIdx, timers, playTimer, collectedGoals,
          dt, ev, clock>>

(***************************************************************************)
(* Program constants                                                       *)
(***************************************************************************)
Gravity == 4                \* defaultSettings.gravity 0.4
FrictionPct == 85           \* defaultSettings.friction 0.85
JumpForce == -110           \* defaultSettings.jumpForce -11
Speed == 40                 \* defaultSettings.speed 4
MaxFallSpeed == 90          \* defaultSettings.maxFallSpeed 9
FastFallSpeed == 150        \* defaultSettings.fastFallSpeed 15
PlayerSize == 300           \* Player.width = Player.height = 30
InvulnerableFrames == 30    \* invulnerableTimer = 30
GameOverDelay == 500        \* setTimeout(gameOver, 500)
DashTime == 200             \* dashTimer = 0.2
DashCooldownTime == 600     \* dashCooldown = 0.6
WallJumpLock == 200         \* wallJumpTimer = 0.2
SlideCap == 15              \* wall slide cap 1.5
DefaultPadForce == -200     \* jump pad default -20
PadDepth == 200             \* jump pad contact band 20
FallMargin == 1000          \* worldHeight + 100
DefaultFallDamage == 20     \* levelSettings.fallDamage || 20
DefaultTrapDamage == 20     \* trap.damage || 20
DefaultDashMult == 4        \* dashSpeedMult || 4.0
CarryBand == 150            \* passenger carry tolerance 15
GoalRadius == 200           \* goal pickup radius beyond half the body, 20
MpUnit == 10000             \* model units per mana point
DefaultMax == 100           \* playerMaxHp / playerMaxMp default

Undef == -1000000           \* JavaScript undefined for a numeric field
Null == -1000001            \* JSON null, which a NaN setting becomes in a copied level record
NoLevel == [none |-> TRUE]  \* null originalLevelData

(***************************************************************************)
(* Arithmetic helpers                                                      *)
(***************************************************************************)
Abs(a) == IF a < 0 THEN -a ELSE a
Min(a, b) == IF a < b THEN a ELSE b
Max(a, b) == IF a > b THEN a ELSE b
Or(a, d) == IF a = Undef \/ a = Null \/ a = 0 THEN d ELSE a     \* JavaScript  a || d

\* truncating division toward zero, as the friction product is cut to the
\* model's resolution
TruncDiv(a, b) == IF a >= 0 THEN a \div b ELSE -((-a) \div b)

RECURSIVE ISqrtIn(_, _, _)
\* largest r in lo..hi with r*r <= n
ISqrtIn(n, lo, hi) ==
    IF lo >= hi THEN lo
    ELSE LET mid == (lo + hi + 1) \div 2
         IN IF mid * mid <= n THEN ISqrtIn(n, mid, hi) ELSE ISqrtIn(n, lo, mid - 1)
\* Math.hypot, exact on axis-aligned and Pythagorean displacements
Hypot(a, b) == ISqrtIn(a * a + b * b, 0, Abs(a) + Abs(b))

\* rectangle overlap test used by the body's collision passes
Overlap(p, r) ==
    /\ p.x + p.width > r.x
    /\ p.x < r.x + r.width
    /\ p.y + p.height > r.y
    /\ p.y < r.y + r.height

(***************************************************************************)
(* Player                                                                  *)
(***************************************************************************)
\* Player.reset (dashSpeedMult and doubleJumpMult are set only by
\* RunManager.applyState and survive a reset)
PlayerReset(p) ==
    [dashSpeedMult |-> p.dashSpeedMult, doubleJumpMult |-> p.doubleJumpMult,
     x |-> 1000, y |-> 1000, width |-> PlayerSize, height |-> PlayerSize,
     vx |-> 0, vy |-> 0, grounded |-> FALSE, jumpLocked |-> FALSE,
     maxHp |-> DefaultMax, hp |-> DefaultMax,
     maxMp |-> DefaultMax * MpUnit, mp |-> DefaultMax * MpUnit,
     defense |-> 0, invulnerable |-> FALSE, invulnerableTimer |-> 0,
     extraJumps |-> 0, jumpsRemaining |-> 0,
     extraDashes |-> 0, dashesRemaining |-> 0,
     dashCooldown |-> 0, isDashing |-> FALSE, dashTimer |-> 0,
     lastDirection |-> 1,
     wallClimbLevel |-> 0, lastTouchingWall |-> 0, wallJumpTimer |-> 0,
     isWallSliding |-> FALSE, isWallClimbing |-> FALSE]

\* Player.updateStats
UpdateStats(p, s) ==
    LET mh == Or(s.playerMaxHp, DefaultMax)
        mm == Or(s.playerMaxMp, DefaultMax * MpUnit)
    IN [p EXCEPT !.maxHp = mh, !.maxMp = mm,
                 !.hp = Min(p.hp, mh), !.mp = Min(p.mp, mm)]

\* The record threaded through one Player.update / trap pass:
\*   p      the body
\*   go     game-over callbacks scheduled
\*   calls  takeDamage calls, hits  calls that were not ignored,
\*   loss   hp lost
\*   by     the traps that called takeDamage
NewPass(p) == [p |-> p, go |-> 0, calls |-> 0, hits |-> 0, loss |-> 0, by |-> {}]

\* Player.takeDamage as it would be without the invulnerability guard
TakeDamageAlways(s, amount) ==
    LET dmg == Max(amount - s.p.defense, 0)
        hp1 == Max(s.p.hp - dmg, 0)
    IN [s EXCEPT !.p = [@ EXCEPT !.hp = hp1,
                                 !.invulnerable = TRUE,
                                 !.invulnerableTimer = InvulnerableFrames],
                 !.go = @ + (IF hp1 <= 0 THEN 1 ELSE 0),
                 !.calls = @ + 1,
                 !.hits = @ + 1,
                 !.loss = @ + (s.p.hp - hp1)]

\* Player.takeDamage
TakeDamage(s, amount) ==
    IF s.p.invulnerable THEN [s EXCEPT !.calls = @ + 1]
    ELSE LET dmg == Max(amount - s.p.defense, 0)
             hp1 == Max(s.p.hp - dmg, 0)
         IN [s EXCEPT !.p = [@ EXCEPT !.hp = hp1,
                                      !.invulnerable = TRUE,
                                      !.invulnerableTimer = InvulnerableFrames],
                      !.go = @ + (IF hp1 <= 0 THEN 1 ELSE 0),
                      !.calls = @ + 1,
                      !.hits = @ + 1,
                      !.loss = @ + (s.p.hp - hp1)]

\* Player.consumeMp: the body after the call (unchanged when it cannot pay)
ConsumeMp(p, amount) == IF p.mp >= amount THEN [p EXCEPT !.mp = @ - amount] ELSE p

\* Player.update, invulnerability countdown: one per tick
InvulnStep(p) ==
    IF p.invulnerable
    THEN LET t == p.invulnerableTimer - 1
         IN [p EXCEPT !.invulnerableTimer = t, !.invulnerable = ~(t <= 0)]
    ELSE p

\* Player.update, skill cooldowns and timers
CooldownStep(p, d) ==
    LET cd == IF p.dashCooldown > 0 THEN p.dashCooldown - d ELSE p.dashCooldown
        tm == IF p.isDashing THEN p.dashTimer - d ELSE p.dashTimer
    IN [p EXCEPT !.dashCooldown = cd, !.dashTimer = tm,
                 !.isDashing = p.isDashing /\ ~(tm <= 0)]

DashMult(p) == Or(p.dashSpeedMult, DefaultDashMult)
SpeedOf(p) == IF p.isDashing THEN Speed * DashMult(p) ELSE Speed
GravityOf(p) == IF p.isDashing THEN 0 ELSE Gravity

\* Player.update, mana regeneration (mpRegen is in model units per ms)
RegenStep(p, ls, d) ==
    LET rate == IF ls.mpRegen = Undef THEN 1
                ELSE IF ls.mpRegen = Null THEN 0 ELSE ls.mpRegen
    IN IF p.mp < p.maxMp THEN [p EXCEPT !.mp = Min(p.mp + rate * d, p.maxMp)]
       ELSE p

\* vx * friction, snapping to 0 below 0.1
Friction(vx) ==
    LET v == TruncDiv(vx * FrictionPct, 100)
    IN IF Abs(v) < 1 THEN 0 ELSE v

\* Player.update, horizontal input
HorizontalStep(p, k, speed, d) ==
    IF ~p.isDashing
    THEN IF p.wallJumpTimer > 0 THEN [p EXCEPT !.wallJumpTimer = @ - d]
         ELSE IF k.left THEN [p EXCEPT !.vx = -speed, !.lastDirection = -1]
         ELSE IF k.right THEN [p EXCEPT !.vx = speed, !.lastDirection = 1]
         ELSE [p EXCEPT !.vx = Friction(p.vx)]
    ELSE [p EXCEPT !.vx = speed * p.lastDirection, !.vy = 0]

\* Player.update, dash skill, as it would be with the cooldown as long as the dash
DashStepShort(p, k) ==
    IF p.extraDashes > 0 /\ k.dash /\ p.dashCooldown <= 0 /\ ~p.isDashing
       /\ p.dashesRemaining > 0
    THEN [p EXCEPT !.dashesRemaining = @ - 1, !.isDashing = TRUE,
                   !.dashTimer = DashTime, !.dashCooldown = DashTime]
    ELSE p

\* Player.update, dash skill
DashStep(p, k) ==
    IF p.extraDashes > 0 /\ k.dash /\ p.dashCooldown <= 0 /\ ~p.isDashing
       /\ p.dashesRemaining > 0
    THEN [p EXCEPT !.dashesRemaining = @ - 1, !.isDashing = TRUE,
                   !.dashTimer = DashTime, !.dashCooldown = DashCooldownTime]
    ELSE p

\* Player.update, wall slide / climb / wall jump; the result carries
\* didWallJump
WallStep(p0, k, speed, d) ==
    LET p == [p0 EXCEPT !.isWallSliding = FALSE, !.isWallClimbing = FALSE]
        justJumped == k.jump /\ ~p0.jumpLocked
        into == (p.lastTouchingWall = -1 /\ k.left) \/ (p.lastTouchingWall = 1 /\ k.right)
        away == (p.lastTouchingWall = -1 /\ k.right) \/ (p.lastTouchingWall = 1 /\ k.left)
        canClimb == p.wallClimbLevel >= 2 \/ p.mp > 0
    IN IF p.wallClimbLevel > 0 /\ ~p.grounded /\ p.lastTouchingWall # 0
       THEN IF into
            THEN IF k.jump /\ canClimb
                 THEN LET c == [p EXCEPT !.isWallSliding = TRUE,
                                         !.isWallClimbing = TRUE,
                                         !.vy = -((speed * 8) \div 10)]
                      IN [p |-> IF p.wallClimbLevel < 2 THEN ConsumeMp(c, 10 * d) ELSE c,
                          didWallJump |-> FALSE]
                 ELSE [p |-> [p EXCEPT !.isWallSliding = TRUE,
                                       !.vy = IF p.vy > SlideCap THEN SlideCap ELSE p.vy],
                       didWallJump |-> FALSE]
            ELSE IF justJumped /\ away
                 THEN [p |-> [p EXCEPT !.vy = JumpForce,
                                       !.vx = IF p.lastTouchingWall = -1
                                              THEN (speed * 15) \div 10
                                              ELSE -((speed * 15) \div 10),
                                       !.wallJumpTimer = WallJumpLock,
                                       !.jumpLocked = TRUE,
                                       !.jumpsRemaining = p.extraJumps,
                                       !.dashesRemaining = p.extraDashes,
                                       !.lastTouchingWall = 0],
                       didWallJump |-> TRUE]
                 ELSE [p |-> p, didWallJump |-> FALSE]
       ELSE [p |-> p, didWallJump |-> FALSE]

DoubleMult(p) == Or(p.doubleJumpMult, 1)

\* Player.update, standard jump and double jump
JumpStep(p, k, didWallJump) ==
    IF k.jump /\ ~didWallJump
    THEN IF p.grounded /\ ~p.jumpLocked
         THEN [p EXCEPT !.vy = JumpForce, !.grounded = FALSE, !.jumpLocked = TRUE,
                        !.jumpsRemaining = p.extraJumps,
                        !.dashesRemaining = p.extraDashes]
         ELSE IF ~p.grounded /\ ~p.jumpLocked /\ p.jumpsRemaining > 0 /\ ~p.isWallSliding
         THEN [p EXCEPT !.vy = JumpForce * DoubleMult(p),
                        !.jumpsRemaining = @ - 1, !.jumpLocked = TRUE]
         ELSE p
    ELSE IF ~k.jump THEN [p EXCEPT !.jumpLocked = FALSE]
    ELSE p

\* GravityStep as it would be if the cap were applied before gravity is added
GravityStepCapFirst(p, k, gravity) ==
    IF ~p.isWallClimbing
    THEN LET maxFall == IF k.down THEN FastFallSpeed ELSE MaxFallSpeed
         IN [p EXCEPT !.vy = (IF p.vy > maxFall THEN maxFall ELSE p.vy) + gravity]
    ELSE p

\* Player.update, gravity and fall-speed cap
GravityStep(p, k, gravity) ==
    IF ~p.isWallClimbing
    THEN LET v == p.vy + gravity
             maxFall == IF k.down THEN FastFallSpeed ELSE MaxFallSpeed
         IN [p EXCEPT !.vy = IF v > maxFall THEN maxFall ELSE v]
    ELSE p

\* Player.update, jump and gravity after the wall logic's result w
JumpGravityStep(w, k, gravity) ==
    GravityStep(JumpStep(w.p, k, w.didWallJump), k, gravity)

\* Player.update, jump pads: the body's feet are in the contact band of pad jp
PadHit(p, jp) ==
    /\ p.x + p.width > jp.x /\ p.x < jp.x + jp.width
    /\ p.y + p.height >= jp.y /\ p.y + p.height <= jp.y + PadDepth
    /\ p.vy >= 0

\* PadTouch as it would be if the configured force were used as it is
PadTouchAsConfigured(p, jp) ==
    IF PadHit(p, jp)
    THEN LET jf == IF jp.jumpForce = Undef THEN DefaultPadForce ELSE jp.jumpForce
         IN [p EXCEPT !.vy = jf, !.y = jp.y - p.height, !.grounded = FALSE,
                      !.jumpLocked = TRUE,
                      !.jumpsRemaining = p.extraJumps,
                      !.dashesRemaining = p.extraDashes,
                      !.isWallClimbing = FALSE, !.isWallSliding = FALSE]
    ELSE p

\* Player.update, one jump pad
PadTouch(p, jp) ==
    IF PadHit(p, jp)
    THEN LET jf0 == IF jp.jumpForce = Undef THEN DefaultPadForce ELSE jp.jumpForce
             jf == IF jf0 >= 0 THEN DefaultPadForce ELSE jf0
         IN [p EXCEPT !.vy = jf, !.y = jp.y - p.height, !.grounded = FALSE,
                      !.jumpLocked = TRUE,
                      !.jumpsRemaining = p.extraJumps,
                      !.dashesRemaining = p.extraDashes,
                      !.isWallClimbing = FALSE, !.isWallSliding = FALSE]
    ELSE p

RECURSIVE PadStep(_, _, _)
\* Player.update, jump pad loop
PadStep(p, pads, i) ==
    IF i > Len(pads) THEN p ELSE PadStep(PadTouch(p, pads[i]), pads, i + 1)

\* Player.update, X pass against one platform
ResolveX(p, pl) ==
    IF Overlap(p, pl)
    THEN IF p.vx > 0
         THEN [p EXCEPT !.x = pl.x - p.width, !.vx = 0, !.lastTouchingWall = 1]
         ELSE IF p.vx < 0
         THEN [p EXCEPT !.x = pl.x + pl.width, !.vx = 0, !.lastTouchingWall = -1]
         ELSE p
    ELSE p

RECURSIVE XLoop(_, _, _)
XLoop(p, pls, i) ==
    IF i > Len(pls) THEN p ELSE XLoop(ResolveX(p, pls[i]), pls, i + 1)

\* Player.update, X movement, world bounds and platform loop
XStep(p0, pls, worldW) ==
    LET x1 == p0.x + p0.vx
        p == IF x1 < 0
             THEN [p0 EXCEPT !.x = 0, !.vx = 0, !.lastTouchingWall = -1]
             ELSE IF x1 + p0.width > worldW
             THEN [p0 EXCEPT !.x = worldW - p0.width, !.vx = 0, !.lastTouchingWall = 1]
             ELSE [p0 EXCEPT !.x = x1, !.lastTouchingWall = 0]
    IN XLoop(p, pls, 1)

\* ResolveY as it would be if a landing restored the jumps only
ResolveYJumpsOnly(r, pl) ==
    IF Overlap(r.p, pl)
    THEN IF r.p.vy > 0
         THEN [p |-> [r.p EXCEPT !.y = pl.y - r.p.height, !.vy = 0, !.grounded = TRUE,
                                 !.jumpsRemaining = r.p.extraJumps],
               landed |-> TRUE, top |-> pl.y, bumped |-> r.bumped]
         ELSE IF r.p.vy < 0
         THEN [r EXCEPT !.p = [@ EXCEPT !.y = pl.y + pl.height, !.vy = 0],
                        !.bumped = TRUE]
         ELSE r
    ELSE r

\* Player.update, Y pass against one platform; the result carries landed,
\* the top edge of the platform landed on and bumped (an underside met)
ResolveY(r, pl) ==
    IF Overlap(r.p, pl)
    THEN IF r.p.vy > 0
         THEN [p |-> [r.p EXCEPT !.y = pl.y - r.p.height, !.vy = 0, !.grounded = TRUE,
                                 !.jumpsRemaining = r.p.extraJumps,
                                 !.dashesRemaining = r.p.extraDashes],
               landed |-> TRUE, top |-> pl.y, bumped |-> r.bumped]
         ELSE IF r.p.vy < 0
         THEN [r EXCEPT !.p = [@ EXCEPT !.y = pl.y + pl.height, !.vy = 0],
                        !.bumped = TRUE]
         ELSE r
    ELSE r

RECURSIVE YLoop(_, _, _)
YLoop(r, pls, i) ==
    IF i > Len(pls) THEN r ELSE YLoop(ResolveY(r, pls[i]), pls, i + 1)

\* Player.update, Y movement, top bound and platform loop
YStep(p0, pls) ==
    LET y1 == p0.y + p0.vy
        p == IF y1 < 0
             THEN [p0 EXCEPT !.y = 0, !.vy = IF p0.vy < 0 THEN 0 ELSE p0.vy,
                             !.grounded = FALSE]
             ELSE [p0 EXCEPT !.y = y1, !.grounded = FALSE]
    IN YLoop([p |-> p, landed |-> FALSE, top |-> 0, bumped |-> FALSE], pls, 1)

\* FallStep as it would be if the respawn kept the body's velocity
FallStepKeepsSpeed(s, ls, spawn) ==
    IF s.p.y > ls.worldHeight + FallMargin
    THEN LET h == TakeDamage(s, Or(ls.fallDamage, DefaultFallDamage))
         IN IF h.p.hp > 0
            THEN [h EXCEPT !.p = [@ EXCEPT !.x = spawn.x, !.y = spawn.y]]
            ELSE h
    ELSE s

\* Player.update, fall damage and respawn; s is a pass record
FallStep(s, ls, spawn) ==
    IF s.p.y > ls.worldHeight + FallMargin
    THEN LET h == TakeDamage(s, Or(ls.fallDamage, DefaultFallDamage))
         IN IF h.p.hp > 0
            THEN [h EXCEPT !.p = [@ EXCEPT !.x = spawn.x, !.y = spawn.y,
                                           !.vx = 0, !.vy = 0]]
            ELSE h
    ELSE s

AnyOverlap(p, pls) == \E i \in 1..Len(pls) : Overlap(p, pls[i])

\* Player.update, controls: speed and gravity are read once, from the body a
\* that the timers left, before the dash skill can start a dash
ControlStep(a, ls, k, d) ==
    JumpGravityStep(
        WallStep(DashStep(HorizontalStep(RegenStep(a, ls, d), k, SpeedOf(a), d), k),
                 k, SpeedOf(a), d),
        k, GravityOf(a))

\* Player.update, jump pads, then the X pass, then the Y pass
\* a is the body after the jump pads; the result of the Y pass is extended
\* with what the jump pads did
PadSeen(c, pls, pads, ls, a) ==
    YStep(XStep(a, pls, ls.worldWidth), pls)
       @@ [padded |-> \E i \in 1..Len(pads) : PadHit(c, pads[i]),
           padForce |-> IF \E i \in 1..Len(pads) : PadHit(c, pads[i])
                        THEN pads[CHOOSE i \in 1..Len(pads) :
                                     /\ PadHit(c, pads[i])
                                     /\ \A j \in 1..(i - 1) : ~PadHit(c, pads[j])].jumpForce
                        ELSE Undef,
           padVy |-> a.vy, padGrounded |-> a.grounded,
           padJumps |-> a.jumpsRemaining, padDashes |-> a.dashesRemaining]
MoveStep(c, pls, pads, ls) == PadSeen(c, pls, pads, ls, PadStep(c, pads, 1))

\* what Player.update did: the pass record f of the fall check, extended with
\* what the controls (result c) and the collision passes (result y)
\* observed; p0 is the body before
PlayerResult(p0, c, pls, ls, y, f) ==
    [p |-> f.p, go |-> f.go, calls |-> f.calls, hits |-> f.hits, loss |-> f.loss,
     landed |-> y.landed, landTop |-> y.top, bumped |-> y.bumped,
     padded |-> y.padded, padForce |-> y.padForce, padVy |-> y.padVy,
     padGrounded |-> y.padGrounded, padJumps |-> y.padJumps, padDashes |-> y.padDashes,
     endGrounded |-> f.p.grounded, endVy |-> f.p.vy,
     endBottom |-> f.p.y + f.p.height,
     vyGravity |-> c.vy,
     climbing |-> c.isWallClimbing,
     jumped |-> c.jumpLocked /\ ~p0.jumpLocked,
     dashed |-> c.dashesRemaining < p0.dashesRemaining,
     \* which branch locked the jump: the wall jump alone sets wallJumpTimer
     \* to WallJumpLock, the standard jump alone needs grounded
     jumpKind |-> IF ~(c.jumpLocked /\ ~p0.jumpLocked) THEN "none"
                  ELSE IF c.wallJumpTimer = WallJumpLock THEN "wall"
                  ELSE IF p0.grounded THEN "standard" ELSE "double",
     sliding |-> c.isWallSliding,
     jumpsLeft |-> c.jumpsRemaining,
     vxControl |-> c.vx,
     wallControl |-> c.lastTouchingWall,
     dashLeft |-> c.dashesRemaining,
     fell |-> y.p.y > ls.worldHeight + FallMargin,
     shielded |-> y.p.invulnerable,
     respawned |-> y.p.y > ls.worldHeight + FallMargin /\ f.p.hp > 0,
     preOverlap |-> AnyOverlap(p0, pls),
     postOverlap |-> AnyOverlap(y.p, pls)]

\* Player.update, from the collision passes' result y on
PlayerFall(p0, c, pls, ls, spawn, y) ==
    PlayerResult(p0, c, pls, ls, y, FallStep(NewPass(y.p), ls, spawn))

\* Player.update, from the controls' result c on
PlayerMove(p0, c, pls, ls, pads, spawn) ==
    PlayerFall(p0, c, pls, ls, spawn, MoveStep(c, pls, pads, ls))

\* Player.update as a whole
PlayerUpdate(p0, pls, ls, pads, spawn, k, d) ==
    PlayerMove(p0, ControlStep(CooldownStep(InvulnStep(p0), d), ls, k, d),
               pls, ls, pads, spawn)

(***************************************************************************)
(* Level data                                                              *)
(***************************************************************************)
WindowWidth == 8000         \* window.innerWidth (defaultSettings.worldWidth)
WindowHeight == 6000        \* window.innerHeight (defaultSettings.worldHeight)

\* Game.loadLevel, settings sanitization
Sanitize(s) ==
    [s EXCEPT !.worldWidth = Or(@, WindowWidth),
              !.worldHeight = Or(@, WindowHeight),
              !.playerMaxHp = IF @ = Undef THEN DefaultMax ELSE @,
              !.playerMaxMp = IF @ = Undef THEN DefaultMax * MpUnit ELSE @,
              !.platformCost = IF @ = Undef THEN 10 * MpUnit ELSE @,
              !.fallDamage = IF @ = Undef THEN DefaultFallDamage ELSE @,
              !.mpRegen = IF @ = Undef THEN 1 ELSE @]

\* trap number i is referenced by a binding of some trigger
Bound(lvl, i) ==
    \E t \in 1..Len(lvl.triggers) :
        \E b \in 1..Len(lvl.triggers[t].bindings) :
            lvl.triggers[t].bindings[b].trapIndex = i

\* Game.loadLevel, "Reset and Initialize Dormancy for Triggers"
InitDormancy(lvl) ==
    [lvl EXCEPT !.traps = [i \in 1..Len(lvl.traps) |->
                              [lvl.traps[i] EXCEPT !.dormant = Bound(lvl, i)]],
                !.triggers = [t \in 1..Len(lvl.triggers) |->
                              [lvl.triggers[t] EXCEPT !.triggered = FALSE]]]

\* Game.startPlayTest, dormancy of bound traps and trigger reset
TestDormancy(lvl) ==
    [lvl EXCEPT !.traps = [i \in 1..Len(lvl.traps) |->
                              [lvl.traps[i] EXCEPT !.dormant = Bound(lvl, i)]],
                !.triggers = [t \in 1..Len(lvl.triggers) |->
                              [lvl.triggers[t] EXCEPT !.triggered = FALSE]]]

\* goals uncollected, exit inactive
ResetGoals(lvl) ==
    [lvl EXCEPT !.goals = [i \in 1..Len(lvl.goals) |->
                              [lvl.goals[i] EXCEPT !.collected = FALSE]],
                !.exit = [@ EXCEPT !.active = FALSE]]

\* body at the spawn point, at rest
AtSpawn(p, lvl) == [p EXCEPT !.x = lvl.spawn.x, !.y = lvl.spawn.y, !.vx = 0, !.vy = 0]

(***************************************************************************)
(* Pending setTimeout callbacks.  A trap callback holds a reference to the *)
(* trap object it closed over: live says that this object is still part of *)
(* currentLevelData.  old (observation only) says that a load, restart or  *)
(* play-test start/stop happened while the callback was pending.           *)
(***************************************************************************)
TrapTimer(i, delay) == [kind |-> "trap", trap |-> i, left |-> delay, live |-> TRUE, old |-> FALSE]
GameOverTimer == [kind |-> "gameOver", trap |-> 0, left |-> GameOverDelay, live |-> TRUE, old |-> FALSE]

\* Detach as it would be if the level were assigned without a deep copy: the
\* pending callbacks keep referring to the level's traps
DetachNoCopy(ts) == ts

\* currentLevelData = JSON.parse(JSON.stringify(...)): every object of the
\* level is replaced, so the traps that pending callbacks refer to are no
\* longer the traps of the level
Detach(ts) == [i \in 1..Len(ts) |-> [ts[i] EXCEPT !.live = FALSE]]

MarkOld(ts) == [i \in 1..Len(ts) |-> [ts[i] EXCEPT !.old = TRUE]]

(***************************************************************************)
(* RunManager                                                              *)
(***************************************************************************)
NoMods == [maxHpAdd |-> 0, maxMpAdd |-> 0, extraDashes |-> 0, extraJumps |-> 0,
           wallClimbLevel |-> 0, dashSpeedMult |-> 4, doubleJumpMult |-> 1]

\* RunManager constructor
NewRun == [runActive |-> FALSE,
           stats |-> [hp |-> 100, mp |-> 100 * MpUnit, maxHp |-> 100,
                      maxMp |-> 100 * MpUnit, currency |-> 0],
           mods |-> NoMods]

\* RunManager.startRun
StartRun(r) == [runActive |-> TRUE,
                stats |-> [hp |-> 100, mp |-> 100 * MpUnit, maxHp |-> 100,
                           maxMp |-> 100 * MpUnit, currency |-> 10],
                mods |-> NoMods]

\* RunManager.endRun
EndRun(r) == [r EXCEPT !.runActive = FALSE]

\* RunManager.addCurrency
AddCurrency(r, n) == IF r.runActive THEN [r EXCEPT !.stats.currency = @ + n] ELSE r

\* RunManager.saveState
SaveState(r, p) == IF r.runActive THEN [r EXCEPT !.stats.hp = p.hp, !.stats.mp = p.mp] ELSE r

\* RunManager.applyState
ApplyState(r, p) ==
    IF ~r.runActive THEN p
    ELSE LET mh == r.stats.maxHp + r.mods.maxHpAdd
             mm == r.stats.maxMp + r.mods.maxMpAdd
         IN [p EXCEPT !.maxHp = mh, !.maxMp = mm,
                      !.hp = Min(r.stats.hp, mh), !.mp = Min(r.stats.mp, mm),
                      !.extraDashes = r.mods.extraDashes,
                      !.extraJumps = r.mods.extraJumps,
                      !.wallClimbLevel = r.mods.wallClimbLevel,
                      !.dashSpeedMult = Or(r.mods.dashSpeedMult, DefaultDashMult),
                      !.doubleJumpMult = Or(r.mods.doubleJumpMult, 1)]

\* cardPool: cost of a card
CardCost(c) ==
    CASE c = "hp_add" -> 5
      [] c = "heal" -> 3
      [] c = "dash" -> 12
      [] c = "double_jump" -> 15
      [] c = "wall_climb" -> 10

\* cardPool: effect of a card on the run
CardEffect(r, c) ==
    CASE c = "hp_add" -> [r EXCEPT !.mods.maxHpAdd = @ + 20]
      [] c = "heal" -> [r EXCEPT !.stats.hp = Min(@ + 50, r.stats.maxHp + r.mods.maxHpAdd)]
      [] c = "dash" -> [r EXCEPT !.mods.extraDashes = @ + 1, !.mods.dashSpeedMult = 4]
      [] c = "double_jump" -> [r EXCEPT !.mods.extraJumps = @ + 1, !.mods.doubleJumpMult = 1]
      [] c = "wall_climb" -> [r EXCEPT !.mods.wallClimbLevel = @ + 1]

(***************************************************************************)
(* Game: load, restart, play test.  g is the record of the game's fields.  *)
(***************************************************************************)
DefaultGoal == [x |-> (WindowWidth * 8) \div 10, y |-> (WindowHeight * 8) \div 10,
                collected |-> FALSE]

\* Game.loadLevel, default goal of a level without goals
WithGoal(l) == IF Len(l.goals) = 0 THEN [l EXCEPT !.goals = <<DefaultGoal>>] ELSE l

\* Game.loadLevel, "Start run if Level 1 and not active"
LoadRun(g) ==
    IF g.state # "edit" /\ g.levelIndex = 1 /\ ~g.run.runActive
    THEN StartRun(g.run) ELSE g.run

\* Game.loadLevel, from the prepared level l and the run r on
LoadInto(g, l, r) ==
    [g EXCEPT !.level = ResetGoals(l),
              !.ev.load = "load",
              !.timers = MarkOld(Detach(@)),
              !.player = AtSpawn(IF g.state # "edit" /\ r.runActive
                                 THEN ApplyState(r, UpdateStats(g.player, l.settings))
                                 ELSE UpdateStats(g.player, l.settings), l),
              !.run = r,
              !.playTimer = 0,
              !.collectedGoals = 0,
              !.state = IF g.isTesting THEN "play"
                        ELSE IF g.editorActive THEN "edit" ELSE "play"]

\* Game.loadLevel
\* Game.loadLevel, missing collections: goals, traps, triggers and jumppads
\* become empty arrays
Arrays(data) == [data EXCEPT !.missing = @ \cap {"platforms"}]

LoadLevel(g, data) ==
    LoadInto(g, WithGoal(InitDormancy(Arrays([data EXCEPT !.settings = Sanitize(@)]))),
             LoadRun(g))

\* LevelManager.getNextLevelIndex (levels are numbered from 1; -1 is none)
NextLevelIndex(g) == IF g.levelIndex + 1 <= Len(g.levels) THEN g.levelIndex + 1 ELSE -1

\* LevelManager.loadLevel
LMLoadLevel(g, idx) ==
    IF idx >= 1 /\ idx <= Len(g.levels)
    THEN LoadLevel([g EXCEPT !.levelIndex = idx], g.levels[idx])
    ELSE g

\* Game.restartLevel, after the level data g1.level was restored
RestartInto(g1) ==
    [g1 EXCEPT !.player = AtSpawn(UpdateStats(PlayerReset(g1.player), g1.level.settings),
                                  g1.level),
               !.ev.load = "restart",
               !.level = ResetGoals(g1.level),
               !.state = "play",
               !.playTimer = 0,
               !.collectedGoals = 0]

\* Game.restartLevel
RestartLevel(g) ==
    RestartInto(IF g.isTesting /\ g.original # NoLevel
                THEN [g EXCEPT !.level = g.original, !.timers = MarkOld(Detach(@))]
                ELSE LoadLevel(g, g.levels[g.levelIndex]))

\* Game.startPlayTest (Editor.applySettingsFromUI rewrites the settings with
\* the values the settings panel shows, which updateSettingsUI keeps equal to
\* the level's settings)
StartPlayTest(g) ==
    LET r1 == [g.run EXCEPT !.runActive = TRUE, !.stats.currency = 10]
        l1 == TestDormancy(ResetGoals(g.level))
    IN [g EXCEPT !.original = g.level,
                 !.ev.load = "startTest",
                 !.state = "play",
                 !.isTesting = TRUE,
                 !.editorActive = FALSE,
                 !.playTimer = 0,
                 !.collectedGoals = 0,
                 !.run = r1,
                 !.level = l1,
                 !.timers = MarkOld(@),
                 !.player = ApplyState(r1, AtSpawn(g.player, g.level))]

\* what of the played level lvl differs from the snapshot snap (observation)
Leaks(lvl, snap) ==
    IF snap = NoLevel THEN {}
    ELSE (IF Len(lvl.platforms) > Len(snap.platforms) THEN {"placed"} ELSE {})
         \cup (IF \E i \in 1..Min(Len(lvl.platforms), Len(snap.platforms)) :
                      lvl.platforms[i].x # snap.platforms[i].x
                         \/ lvl.platforms[i].y # snap.platforms[i].y
                THEN {"platform"} ELSE {})
         \cup (IF \E i \in 1..Min(Len(lvl.traps), Len(snap.traps)) :
                      lvl.traps[i].x # snap.traps[i].x \/ lvl.traps[i].y # snap.traps[i].y
                THEN {"hazard"} ELSE {})
         \cup (IF \E i \in 1..Min(Len(lvl.platforms), Len(snap.platforms)) :
                      lvl.platforms[i].baseX # snap.platforms[i].baseX
                         \/ lvl.platforms[i].startX # snap.platforms[i].startX
                         \/ lvl.platforms[i].movingForward # snap.platforms[i].movingForward
                THEN {"runtime"} ELSE {})
         \cup (IF \E i \in 1..Len(lvl.goals) : lvl.goals[i].collected
                THEN {"collected"} ELSE {})
         \cup (IF lvl.exit.active THEN {"exit"} ELSE {})
         \cup (IF \E t \in 1..Len(lvl.triggers) : lvl.triggers[t].triggered
                THEN {"triggered"} ELSE {})

\* Game.stopPlayTest as it would be if the restored platforms kept the
\* motion runtime fields of the played ones
StopPlayTestStale(g) ==
    [g EXCEPT !.state = "edit", !.isTesting = FALSE, !.editorActive = TRUE,
              !.ev.load = "stopTest", !.ev.undone = Leaks(g.level, g.original),
              !.timers = MarkOld(Detach(@)),
              !.level = IF g.original = NoLevel THEN @
                        ELSE [g.original EXCEPT !.platforms =
                                [i \in 1..Len(g.original.platforms) |->
                                   [g.original.platforms[i] EXCEPT
                                       !.baseX = g.level.platforms[i].baseX,
                                       !.baseY = g.level.platforms[i].baseY,
                                       !.startX = g.level.platforms[i].startX,
                                       !.startY = g.level.platforms[i].startY]]]]

\* Game.stopPlayTest as it would be if it kept the played level data
StopPlayTestKeeps(g) ==
    [g EXCEPT !.state = "edit", !.isTesting = FALSE, !.editorActive = TRUE,
              !.ev.load = "stopTest", !.ev.undone = Leaks(g.level, g.original)]

\* Game.stopPlayTest
StopPlayTest(g) ==
    LET g1 == [g EXCEPT !.state = "edit", !.isTesting = FALSE, !.editorActive = TRUE,
                        !.ev.load = "stopTest", !.ev.undone = Leaks(g.level, g.original)]
    IN IF g.original # NoLevel
       THEN [g1 EXCEPT !.level = g.original, !.timers = MarkOld(Detach(@))]
       ELSE g1

\* Game.win
Win(g) == [g EXCEPT !.state = "won",
                    !.run = IF g.run.runActive THEN EndRun(g.run) ELSE g.run]

\* Game.gameOver as it would be if it ended the run and loaded nothing
GameOverNoLoad(g) == [g EXCEPT !.run = EndRun(g.run)]

\* Game.gameOver
GameOver(g) == LMLoadLevel([g EXCEPT !.run = EndRun(g.run)], 1)

\* RunManager.showShop
ShowShop(g, nextIdx) ==
    IF ~g.run.runActive THEN LMLoadLevel(g, nextIdx)
    ELSE [g EXCEPT !.state = "shop", !.pendingIdx = nextIdx]

\* RunManager.hideShop
HideShop(g, nextIdx) ==
    LET g1 == [g EXCEPT !.state = "play"]
    IN IF nextIdx # -1 THEN LMLoadLevel(g1, nextIdx) ELSE Win(g1)

\* LevelManager.saveCurrentLevelState
SaveCurrentLevel(g) == [g EXCEPT !.levels[g.levelIndex] = g.level]

\* Editor.toggle
EditorToggle(g) ==
    IF ~g.editorActive
    THEN [RestartLevel([g EXCEPT !.editorActive = TRUE]) EXCEPT !.state = "edit"]
    ELSE RestartLevel([SaveCurrentLevel(g) EXCEPT !.editorActive = FALSE, !.state = "play"])


(***************************************************************************)
(* Game.update: triggers, scripted motion, body, hazards, goals, exit      *)
(***************************************************************************)
\* what a handler did; op names the handler, load the last (re)load it made
EmptyEv(op) ==
    [op |-> op, load |-> "none", calls |-> 0, hits |-> 0, loss |-> 0, go |-> 0,
     fell |-> FALSE, fallCalls |-> 0, fallHits |-> 0, fallShielded |-> FALSE,
     respawned |-> FALSE, landed |-> FALSE,
     preOverlap |-> FALSE, postOverlap |-> FALSE, hitAfter |-> -1,
     fired |-> "none", firedOld |-> FALSE, firedTrap |-> 0, armed |-> {}, exited |-> FALSE,
     beams |-> <<>>, jumpKey |-> FALSE, downKey |-> FALSE, idle |-> FALSE,
     updated |-> FALSE, hitBy |-> {}, placed |-> FALSE,
     vyGravity |-> 0, climbing |-> FALSE, jumped |-> FALSE, undone |-> {},
     dashKey |-> FALSE, dashed |-> FALSE, dashLeft |-> 0, dashAfter |-> -1,
     leftKey |-> FALSE, rightKey |-> FALSE,
     jumpKind |-> "none", sliding |-> FALSE, jumpsLeft |-> 0, vxControl |-> 0,
     wallControl |-> 0,
     landTop |-> 0, bumped |-> FALSE, endGrounded |-> FALSE, endVy |-> 0,
     endBottom |-> 0, carryX |-> 0, carryY |-> 0, spent |-> {},
     padded |-> FALSE, padForce |-> Undef, padVy |-> 0, padGrounded |-> FALSE,
     padJumps |-> 0, padDashes |-> 0,
     threw |-> FALSE, halted |-> FALSE]

\* Fires as it would be if a spent one-shot trigger fired again
FiresAgain(tr, p) == Overlap(p, tr)

\* a trigger fires in this tick
Fires(tr, p) == ~(tr.triggered /\ tr.oneShot) /\ Overlap(p, tr)

RECURSIVE BindingTimers(_, _, _)
\* the callbacks one firing trigger schedules, in binding order
BindingTimers(bs, nTraps, b) ==
    IF b > Len(bs) THEN <<>>
    ELSE (IF bs[b].trapIndex <= nTraps /\ bs[b].delay > 0
          THEN <<TrapTimer(bs[b].trapIndex, bs[b].delay)>> ELSE <<>>)
         \o BindingTimers(bs, nTraps, b + 1)

RECURSIVE TriggerTimers(_, _, _)
\* the callbacks all firing triggers schedule, in trigger order
TriggerTimers(lvl, p, t) ==
    IF t > Len(lvl.triggers) THEN <<>>
    ELSE (IF Fires(lvl.triggers[t], p)
          THEN BindingTimers(lvl.triggers[t].bindings, Len(lvl.traps), 1) ELSE <<>>)
         \o TriggerTimers(lvl, p, t + 1)

\* trap i is activated at once by a firing trigger (binding without delay)
ActivatedNow(lvl, p, i) ==
    \E t \in 1..Len(lvl.triggers) :
        /\ Fires(lvl.triggers[t], p)
        /\ \E b \in 1..Len(lvl.triggers[t].bindings) :
              /\ lvl.triggers[t].bindings[b].trapIndex = i
              /\ ~(lvl.triggers[t].bindings[b].delay > 0)

\* TriggerDetect as it would be if every frame recomputed the dormancy of
\* bound hazards from the triggers firing in it
TriggerDetectRearm(g) ==
    LET lvl == g.level
        p == g.player
    IN [g EXCEPT
          !.level.triggers = [t \in 1..Len(lvl.triggers) |->
              [lvl.triggers[t] EXCEPT !.triggered = @ \/ Fires(lvl.triggers[t], p)]],
          !.level.traps = [i \in 1..Len(lvl.traps) |->
              [lvl.traps[i] EXCEPT !.dormant = IF Bound(lvl, i) THEN ~ActivatedNow(lvl, p, i)
                                               ELSE @]],
          !.timers = @ \o TriggerTimers(lvl, p, 1),
          !.ev.armed = {t \in 1..Len(lvl.triggers) :
                          ~lvl.triggers[t].triggered /\ Fires(lvl.triggers[t], p)}]

\* Game.update, trigger detection
TriggerDetect(g) ==
    LET lvl == g.level
        p == g.player
    IN [g EXCEPT
          !.level.triggers = [t \in 1..Len(lvl.triggers) |->
              [lvl.triggers[t] EXCEPT !.triggered = @ \/ Fires(lvl.triggers[t], p)]],
          !.level.traps = [i \in 1..Len(lvl.traps) |->
              [lvl.traps[i] EXCEPT !.dormant = @ /\ ~ActivatedNow(lvl, p, i)]],
          !.timers = @ \o TriggerTimers(lvl, p, 1),
          !.ev.armed = {t \in 1..Len(lvl.triggers) :
                          ~lvl.triggers[t].triggered /\ Fires(lvl.triggers[t], p)},
          !.ev.spent = {t \in 1..Len(lvl.triggers) :
                          /\ lvl.triggers[t].triggered /\ lvl.triggers[t].oneShot
                          /\ Overlap(p, lvl.triggers[t])}]

Pi == 3142                  \* pi in milliradians
TwoPi == 6284

\* 1000 * sin(x) for x in 0..Pi (Bhaskara's rational approximation of Math.sin)
SinHalf(x) == (16 * x * (Pi - x)) \div ((5 * Pi * Pi - 4 * x * (Pi - x)) \div 1000)
Sin(x) == LET y == x % TwoPi IN IF y <= Pi THEN SinHalf(y) ELSE -SinHalf(y - Pi)
Cos(x) == Sin(x + Pi \div 2)

\* the trap's box at centre (cx, cy) overlaps platform pl
TrapBoxHits(o, cx, cy, pl) ==
    LET sw == o.width * Or(o.scale, 1)
        sh == o.height * Or(o.scale, 1)
    IN /\ cx - sw \div 2 < pl.x + pl.width
       /\ cx + sw \div 2 > pl.x
       /\ cy - sh \div 2 < pl.y + pl.height
       /\ cy + sh \div 2 > pl.y

\* LinearStep as it would be if the last step to the target were a full step
\* like the others instead of a snap to the target
LinearStepNoSnap(o, isPlatform, pls, d) ==
    IF o.speed > 0 /\ (o.tx # 0 \/ o.ty # 0)
    THEN LET s == [o EXCEPT !.startX = IF @ = Undef THEN o.baseX ELSE @,
                            !.startY = IF @ = Undef THEN o.baseY ELSE @]
             targetX == IF s.movingForward THEN s.startX + s.tx ELSE s.startX
             targetY == IF s.movingForward THEN s.startY + s.ty ELSE s.startY
             dx == targetX - s.baseX
             dy == targetY - s.baseY
             dist == Hypot(dx, dy)
             moveStep == (s.speed * d) \div 100
         IN [s EXCEPT !.baseX = @ + TruncDiv(dx * moveStep, dist),
                      !.baseY = @ + TruncDiv(dy * moveStep, dist),
                      !.movingForward = IF dist <= moveStep THEN ~@ ELSE @]
    ELSE o

\* applyMovement, 1. linear A-to-B movement of the base position
LinearStep(o, isPlatform, pls, d) ==
    IF o.speed > 0 /\ (o.tx # 0 \/ o.ty # 0)
    THEN LET s == [o EXCEPT !.startX = IF @ = Undef THEN o.baseX ELSE @,
                            !.startY = IF @ = Undef THEN o.baseY ELSE @]
             targetX == IF s.movingForward THEN s.startX + s.tx ELSE s.startX
             targetY == IF s.movingForward THEN s.startY + s.ty ELSE s.startY
             dx == targetX - s.baseX
             dy == targetY - s.baseY
             dist == Hypot(dx, dy)
             moveStep == (s.speed * d) \div 100
         IN IF dist <= moveStep
            THEN [s EXCEPT !.baseX = targetX, !.baseY = targetY,
                           !.movingForward = ~@]
            ELSE LET deltaX == TruncDiv(dx * moveStep, dist)
                     deltaY == TruncDiv(dy * moveStep, dist)
                     willCollide ==
                        /\ ~isPlatform
                        /\ \E i \in 1..Len(pls) :
                              TrapBoxHits(s, s.baseX + deltaX, s.baseY + deltaY, pls[i])
                 IN IF willCollide THEN [s EXCEPT !.movingForward = ~@]
                    ELSE [s EXCEPT !.baseX = @ + deltaX, !.baseY = @ + deltaY]
    ELSE o

\* applyMovement, 2. oscillation: the object with its phase advanced, and
\* the offset (the phase is kept modulo 2 pi)
OscStep(o, d) ==
    IF o.oscSpeed > 0 /\ (o.oscX # 0 \/ o.oscY # 0)
    THEN LET t == ((IF o.oscTime = Undef THEN 0 ELSE o.oscTime) + d * o.oscSpeed) % TwoPi
         IN [obj |-> [o EXCEPT !.oscTime = t],
             ox |-> TruncDiv(Sin(t) * o.oscX, 1000),
             oy |-> TruncDiv(Cos(t) * o.oscY, 1000)]
    ELSE [obj |-> o, ox |-> 0, oy |-> 0]

RECURSIVE MovePlatforms(_, _, _, _)
\* applyMovement, 3. final position: base position plus oscillation offset
Placed(osc) == [osc.obj EXCEPT !.x = osc.obj.baseX + osc.ox,
                               !.y = osc.obj.baseY + osc.oy]

\* applyMovement, 4. a platform that moved from obj to o3 carries the body
Carry(obj, o3, isPlatform, p) ==
    [obj |-> o3,
     p |-> IF /\ isPlatform
              /\ p.vy >= 0
              /\ p.x + p.width > o3.x
              /\ p.x < o3.x + o3.width
              /\ Abs((p.y + p.height) - o3.y) < CarryBand
           THEN [p EXCEPT !.x = @ + (o3.x - obj.x), !.y = @ + (o3.y - obj.y)]
           ELSE p]

\* applyMovement: the moved object and the (possibly carried) body
ApplyMovement(obj, isPlatform, p, pls, d) ==
    IF obj.speed = 0 /\ obj.oscSpeed = 0 THEN [obj |-> obj, p |-> p]
    ELSE Carry(obj,
               Placed(OscStep(LinearStep([obj EXCEPT !.baseX = IF @ = Undef THEN obj.x ELSE @,
                                                     !.baseY = IF @ = Undef THEN obj.y ELSE @],
                                         isPlatform, pls, d), d)),
               isPlatform, p)

\* Game.update, platform loop from platform i on, platform i moved as m
MovePlatformsFrom(pls, m, i, d) == MovePlatforms([pls EXCEPT ![i] = m.obj], m.p, i + 1, d)

\* Game.update, platform loop: the result holds the platforms and the body
MovePlatforms(pls, p, i, d) ==
    IF i > Len(pls) THEN [pls |-> pls, p |-> p]
    ELSE MovePlatformsFrom(pls, ApplyMovement(pls[i], TRUE, p, pls, d), i, d)

\* MoveTraps as it would be if dormant traps moved like the others
MoveTrapsAll(traps, pls, p, d) ==
    [i \in 1..Len(traps) |-> ApplyMovement(traps[i], FALSE, p, pls, d).obj]

\* Game.update, trap loop: dormant traps do not move
MoveTraps(traps, pls, p, d) ==
    [i \in 1..Len(traps) |->
        IF traps[i].dormant THEN traps[i]
        ELSE ApplyMovement(traps[i], FALSE, p, pls, d).obj]

\* the remainder operator of the source language: the sign of the dividend
JsRem(a, b) == IF a >= 0 THEN a % b ELSE 0 - ((0 - a) % b)

RECURSIVE ClipRightLast(_, _, _, _, _)
\* ClipRight as it would be if a platform ahead blocked the beam whether or
\* not it is nearer than what blocks it so far
ClipRightLast(pls, i, startX, startY, endX) ==
    IF i > Len(pls) THEN endX
    ELSE LET q == pls[i]
             blocked == /\ startY >= q.y /\ startY <= q.y + q.height
                        /\ q.x >= startX
         IN ClipRightLast(pls, i + 1, startX, startY, IF blocked THEN q.x ELSE endX)

RECURSIVE ClipRight(_, _, _, _, _)
\* getLaserBounds, rotation 0: endX after the platform loop
ClipRight(pls, i, startX, startY, endX) ==
    IF i > Len(pls) THEN endX
    ELSE LET q == pls[i]
             blocked == /\ startY >= q.y /\ startY <= q.y + q.height
                        /\ q.x >= startX /\ q.x < endX
         IN ClipRight(pls, i + 1, startX, startY, IF blocked THEN q.x ELSE endX)

RECURSIVE ClipLeft(_, _, _, _, _)
\* getLaserBounds, rotation 180
ClipLeft(pls, i, startX, startY, endX) ==
    IF i > Len(pls) THEN endX
    ELSE LET q == pls[i]
             blocked == /\ startY >= q.y /\ startY <= q.y + q.height
                        /\ q.x + q.width <= startX /\ q.x + q.width > endX
         IN ClipLeft(pls, i + 1, startX, startY, IF blocked THEN q.x + q.width ELSE endX)

RECURSIVE ClipDown(_, _, _, _, _)
\* getLaserBounds, rotation 90
ClipDown(pls, i, startX, startY, endY) ==
    IF i > Len(pls) THEN endY
    ELSE LET q == pls[i]
             blocked == /\ startX >= q.x /\ startX <= q.x + q.width
                        /\ q.y >= startY /\ q.y < endY
         IN ClipDown(pls, i + 1, startX, startY, IF blocked THEN q.y ELSE endY)

RECURSIVE ClipUp(_, _, _, _, _)
\* getLaserBounds, rotation 270
ClipUp(pls, i, startX, startY, endY) ==
    IF i > Len(pls) THEN endY
    ELSE LET q == pls[i]
             blocked == /\ startX >= q.x /\ startX <= q.x + q.width
                        /\ q.y + q.height <= startY /\ q.y + q.height > endY
         IN ClipUp(pls, i + 1, startX, startY, IF blocked THEN q.y + q.height ELSE endY)

\* Game.getLaserBounds
GetLaserBounds(trap, pls) ==
    LET rot == JsRem(trap.rotation, 360)
        half == trap.width \div 2
        startX == IF rot = 90 \/ rot = 270 THEN trap.x
                  ELSE IF rot = 180 THEN trap.x + half ELSE trap.x - half
        startY == IF rot = 90 THEN trap.y - half
                  ELSE IF rot = 270 THEN trap.y + half ELSE trap.y
        endX0 == IF rot = 90 \/ rot = 270 THEN trap.x
                 ELSE IF rot = 180 THEN trap.x - half ELSE trap.x + half
        endY0 == IF rot = 90 THEN trap.y + half
                 ELSE IF rot = 270 THEN trap.y - half ELSE trap.y
        endX == IF rot = 0 THEN ClipRight(pls, 1, startX, startY, endX0)
                ELSE IF rot = 180 THEN ClipLeft(pls, 1, startX, startY, endX0)
                ELSE endX0
        endY == IF rot = 90 THEN ClipDown(pls, 1, startX, startY, endY0)
                ELSE IF rot = 270 THEN ClipUp(pls, 1, startX, startY, endY0)
                ELSE endY0
    IN [minX |-> Min(startX, endX), maxX |-> Max(startX, endX),
        minY |-> Min(startY, endY), maxY |-> Max(startY, endY),
        startX |-> startX, startY |-> startY, endX |-> endX, endY |-> endY]

\* Game.update, the body's centre within the beam's bounds b, widened by
\* half the body
InBeam(b, p) ==
    /\ p.x + p.width \div 2 >= b.minX - p.width \div 2
    /\ p.x + p.width \div 2 <= b.maxX + p.width \div 2
    /\ p.y + p.height \div 2 >= b.minY - p.height \div 2
    /\ p.y + p.height \div 2 <= b.maxY + p.height \div 2

\* Game.update, hit test of one trap against the body
TrapHits(trap, p, pls) ==
    IF trap.type = "laser" THEN InBeam(GetLaserBounds(trap, pls), p)
    ELSE LET rot == JsRem(trap.rotation, 360)
             tW == IF rot = 90 \/ rot = 270 THEN trap.height ELSE trap.width
             tH == IF rot = 90 \/ rot = 270 THEN trap.width ELSE trap.height
         IN /\ 2 * Abs(p.x + p.width \div 2 - trap.x) < p.width + tW
            /\ 2 * Abs(p.y + p.height \div 2 - trap.y) < p.height + tH

RECURSIVE TrapLoop(_, _, _, _)
\* Game.update, trap collision loop over a pass record
TrapLoop(s, traps, pls, i) ==
    IF i > Len(traps) THEN s
    ELSE TrapLoop(IF ~traps[i].dormant /\ TrapHits(traps[i], s.p, pls)
                  THEN [TakeDamage(s, Or(traps[i].damage, DefaultTrapDamage))
                           EXCEPT !.by = @ \cup {i}]
                  ELSE s,
                  traps, pls, i + 1)

\* Game.update, trap collision logic
TrapPass(p, lvl) ==
    IF ~p.invulnerable THEN TrapLoop(NewPass(p), lvl.traps, lvl.platforms, 1)
    ELSE NewPass(p)

RECURSIVE Repeat(_, _)
Repeat(x, n) == IF n <= 0 THEN <<>> ELSE <<x>> \o Repeat(x, n - 1)

\* a goal is within reach of the body
GoalReached(go, p) ==
    LET dx == (p.x + p.width \div 2) - go.x
        dy == (p.y + p.height \div 2) - go.y
    IN Hypot(dx, dy) < p.width \div 2 + GoalRadius

\* Game.update, goal collection
GoalStep(g) ==
    LET gs == g.level.goals
        got == {i \in 1..Len(gs) : ~gs[i].collected /\ GoalReached(gs[i], g.player)}
    IN [g EXCEPT !.level.goals = [i \in 1..Len(gs) |->
                                     [gs[i] EXCEPT !.collected = @ \/ i \in got]],
                 !.collectedGoals = @ + Cardinality(got),
                 !.run = IF g.state # "edit" THEN AddCurrency(@, Cardinality(got)) ELSE @]

\* Game.update, exit activation and level-exit transition
ExitStep(g) ==
    LET act == g.level.exit.active \/ g.collectedGoals >= g.level.conditions.targetCount
        e == g.level.exit
        box == [x |-> e.x, y |-> e.y, width |-> Or(e.w, 500), height |-> Or(e.h, 800)]
        g1 == [g EXCEPT !.level.exit.active = act]
    IN IF act /\ Overlap(g.player, box)
       THEN LET g2 == [g1 EXCEPT !.level.exit.active = FALSE, !.ev.exited = TRUE]
                nextIdx == NextLevelIndex(g2)
            IN IF g2.state # "edit" /\ g2.run.runActive
               THEN ShowShop([g2 EXCEPT !.run = SaveState(@, g2.player)], nextIdx)
               ELSE IF nextIdx # -1 THEN LMLoadLevel(g2, nextIdx) ELSE Win(g2)
       ELSE g1

\* Game.update, scripted motion: platforms moved as mp (with the carried
\* body), then the traps
Moved(t, mp, d) ==
    [t EXCEPT !.level.platforms = mp.pls,
              !.level.traps = MoveTraps(t.level.traps, mp.pls, mp.p, d),
              !.player = mp.p,
              !.ev.carryX = mp.p.x - t.player.x,
              !.ev.carryY = mp.p.y - t.player.y]
MotionStep(t, d) == Moved(t, MovePlatforms(t.level.platforms, t.player, 1, d), d)

\* Game.update, after Player.update returned u and the trap pass h
Damaged(m, u, h) ==
    [m EXCEPT !.player = h.p,
              !.timers = @ \o Repeat(GameOverTimer, u.go + h.go),
              !.ev = [@ EXCEPT !.calls = u.calls + h.calls,
                               !.hits = u.hits + h.hits,
                               !.loss = u.loss + h.loss,
                               !.go = u.go + h.go,
                               !.fell = u.fell,
                               !.fallCalls = u.calls,
                               !.fallHits = u.hits,
                               !.fallShielded = u.shielded,
                               !.respawned = u.respawned,
                               !.landed = u.landed,
                               !.padded = u.padded,
                               !.padForce = u.padForce,
                               !.padVy = u.padVy,
                               !.padGrounded = u.padGrounded,
                               !.padJumps = u.padJumps,
                               !.padDashes = u.padDashes,
                               !.landTop = u.landTop,
                               !.bumped = u.bumped,
                               !.endGrounded = u.endGrounded,
                               !.endVy = u.endVy,
                               !.endBottom = u.endBottom,
                               !.updated = TRUE,
                               !.hitBy = h.by,
                               !.vyGravity = u.vyGravity,
                               !.climbing = u.climbing,
                               !.jumped = u.jumped,
                               !.dashed = u.dashed,
                               !.jumpKind = u.jumpKind,
                               !.sliding = u.sliding,
                               !.jumpsLeft = u.jumpsLeft,
                               !.vxControl = u.vxControl,
                               !.wallControl = u.wallControl,
                               !.dashLeft = u.dashLeft,
                               !.preOverlap = u.preOverlap,
                               !.postOverlap = u.postOverlap]]
HazardStep(m, u) == Damaged(m, u, TrapPass(u.p, m.level))

\* Game.update, Player.update and trap collision
BodyStep(m, k, d) ==
    HazardStep(m, PlayerUpdate(m.player, m.level.platforms, m.level.settings,
                               m.level.jumppads, m.level.spawn, k, d))

\* Game.update, play timer, time limit, then goals and exit
TimeStep(b, d) ==
    IF b.level.conditions.timeLimit > 0
    THEN IF b.playTimer + d > b.level.conditions.timeLimit
         THEN RestartLevel([b EXCEPT !.playTimer = @ + d])
         ELSE ExitStep(GoalStep([b EXCEPT !.playTimer = @ + d]))
    ELSE ExitStep(GoalStep([b EXCEPT !.playTimer = 0]))

\* applyMovement of hazard o takes a step that is checked against the platforms
TrapChecks(o, d) ==
    LET bx == IF o.baseX = Undef THEN o.x ELSE o.baseX
        by == IF o.baseY = Undef THEN o.y ELSE o.baseY
        sx == IF o.startX = Undef THEN bx ELSE o.startX
        sy == IF o.startY = Undef THEN by ELSE o.startY
        dx == (IF o.movingForward THEN sx + o.tx ELSE sx) - bx
        dy == (IF o.movingForward THEN sy + o.ty ELSE sy) - by
    IN /\ ~o.dormant
       /\ o.speed > 0 /\ (o.tx # 0 \/ o.ty # 0)
       /\ Hypot(dx, dy) > (o.speed * d) \div 100

\* hazard o as the check that throws leaves it
TrapStarted(o) ==
    LET bx == IF o.baseX = Undef THEN o.x ELSE o.baseX
        by == IF o.baseY = Undef THEN o.y ELSE o.baseY
    IN [o EXCEPT !.baseX = bx, !.baseY = by,
                 !.startX = IF @ = Undef THEN bx ELSE @,
                 !.startY = IF @ = Undef THEN by ELSE @]

\* Game.update on a level record without platforms: the first hazard whose
\* step is checked against the platforms throws in the loop over them;
\* with no such hazard Player.update runs up to the platform loop of its
\* X pass and throws there.  The frame loop is not scheduled again
Thrown(g, k, d) ==
    LET t == TriggerDetect(g)
        n == Len(t.level.traps)
        S == {i \in 1..n : TrapChecks(t.level.traps[i], d)}
    IN IF S # {}
       THEN [t EXCEPT !.level.traps =
                         [i \in 1..n |->
                            IF \E j \in S : j < i THEN t.level.traps[i]
                            ELSE IF i \in S THEN TrapStarted(t.level.traps[i])
                            ELSE MoveTraps(t.level.traps, <<>>, t.player, d)[i]],
                      !.ev.threw = TRUE, !.ev.halted = TRUE]
       ELSE [t EXCEPT !.level.traps = MoveTraps(@, <<>>, t.player, d),
                      !.player = XStep(PadStep(ControlStep(CooldownStep(InvulnStep(t.player), d),
                                                           t.level.settings, k, d),
                                               t.level.jumppads, 1),
                                       <<>>, t.level.settings.worldWidth),
                      !.ev.threw = TRUE, !.ev.halted = TRUE]

\* Game.update: the game after one frame with input k and frame time d
GameUpdate(g, k, d) ==
    IF g.state # "play" THEN g
    ELSE IF "platforms" \in g.level.missing THEN Thrown(g, k, d)
    ELSE TimeStep(BodyStep(MotionStep(TriggerDetect(g), d), k, d), d)

(***************************************************************************)
(* Level records                                                           *)
(***************************************************************************)
NoMotion == [speed |-> 0, tx |-> 0, ty |-> 0, oscX |-> 0, oscY |-> 0, oscSpeed |-> 0,
             baseX |-> Undef, baseY |-> Undef, startX |-> Undef, startY |-> Undef,
             movingForward |-> TRUE, oscTime |-> Undef]

Plat(x, y, w, h) == [x |-> x, y |-> y, width |-> w, height |-> h] @@ NoMotion
Mover(pl, speed, tx, ty) == [pl EXCEPT !.speed = speed, !.tx = tx, !.ty = ty]
Spikes(x, y, w, h, dmg) ==
    [type |-> "spikes", x |-> x, y |-> y, width |-> w, height |-> h, rotation |-> 0,
     scale |-> 1, damage |-> dmg, dormant |-> FALSE] @@ NoMotion
Laser(x, y, len, rot, dmg) ==
    [type |-> "laser", x |-> x, y |-> y, width |-> len, height |-> 100, rotation |-> rot,
     scale |-> 1, damage |-> dmg, dormant |-> FALSE] @@ NoMotion
Binding(i, delay) == [trapIndex |-> i, delay |-> delay]
Trigger(x, y, w, h, oneShot, bs) ==
    [x |-> x, y |-> y, width |-> w, height |-> h, oneShot |-> oneShot,
     triggered |-> FALSE, bindings |-> bs]
Goal(x, y) == [x |-> x, y |-> y, collected |-> FALSE]
Pad(x, y, w, jf) == [x |-> x, y |-> y, width |-> w, jumpForce |-> jf]

DefaultLevelSettings(w, h) ==
    [worldWidth |-> w, worldHeight |-> h, playerMaxHp |-> 100,
     playerMaxMp |-> 100 * MpUnit, platformCost |-> 10 * MpUnit,
     fallDamage |-> 20, mpRegen |-> 1]

\* a level that can only be left through its exit at (ex, ey)
MakeLevel(set, pls, traps, pads, trigs, goals, ex, ey, sx, sy, limit, target) ==
    [settings |-> set, platforms |-> pls, traps |-> traps, jumppads |-> pads,
     triggers |-> trigs, goals |-> goals,
     exit |-> [x |-> ex, y |-> ey, w |-> 500, h |-> 500, active |-> FALSE],
     spawn |-> [x |-> sx, y |-> sy],
     conditions |-> [timeLimit |-> limit, targetCount |-> target],
     \* the collections that the record lacks (their fields above are empty)
     missing |-> {}]

(***************************************************************************)
(* The game's fields as one record, and back                               *)
(***************************************************************************)
World == [state |-> state, isTesting |-> isTesting, editorActive |-> editorActive,
          player |-> player, level |-> level, original |-> original,
          levels |-> levels, levelIndex |-> levelIndex, run |-> run,
          pendingIdx |-> pendingIdx, timers |-> timers, playTimer |-> playTimer,
          collectedGoals |-> collectedGoals, ev |-> ev]

Begin(op) == [World EXCEPT !.ev = [EmptyEv(op) EXCEPT !.halted = ev.halted]]

Install(g) ==
    /\ state = g.state /\ isTesting = g.isTesting /\ editorActive = g.editorActive
    /\ player = g.player /\ level = g.level /\ original = g.original
    /\ levels = g.levels /\ levelIndex = g.levelIndex /\ run = g.run
    /\ pendingIdx = g.pendingIdx /\ timers = g.timers /\ playTimer = g.playTimer
    /\ collectedGoals = g.collectedGoals /\ ev = g.ev

Commit(g) ==
    /\ state' = g.state /\ isTesting' = g.isTesting /\ editorActive' = g.editorActive
    /\ player' = g.player /\ level' = g.level /\ original' = g.original
    /\ levels' = g.levels /\ levelIndex' = g.levelIndex /\ run' = g.run
    /\ pendingIdx' = g.pendingIdx /\ timers' = g.timers /\ playTimer' = g.playTimer
    /\ collectedGoals' = g.collectedGoals /\ ev' = g.ev

\* Player constructor
NewPlayer == PlayerReset([dashSpeedMult |-> Undef, doubleJumpMult |-> Undef])

\* Game constructor with the stored levels lvls, started in state st
Boot(lvls, st) ==
    LoadLevel([state |-> st, isTesting |-> FALSE, editorActive |-> (st = "edit"),
               player |-> NewPlayer, level |-> lvls[1], original |-> NoLevel,
               levels |-> lvls, levelIndex |-> 1, run |-> NewRun,
               pendingIdx |-> -1, timers |-> <<>>, playTimer |-> 0,
               collectedGoals |-> 0, ev |-> EmptyEv("Init")],
              lvls[1])

(***************************************************************************)
(* Time.  A frame sees the time dt since the previous frame; setTimeout    *)
(* callbacks run on the same clock, so at the end of a frame the time to   *)
(* the next frame is chosen and taken off every pending callback, and a    *)
(* callback that is due runs before that frame.                            *)
(***************************************************************************)
DtSet == {8, 16, 32}        \* frame times: 125, 62.5 and 31.25 frames per second
HalfSecond == 500           \* the invulnerability window of the specification
MaxDelay == 48              \* longest binding delay of the levels below
MaxDrop == 24               \* longest free fall counted, in ticks
MaxPlaced == 2              \* most platforms placed by clicks in one level
MaxCoins == 12              \* most coins of a run whose level restarts over and over

Elapse(ts, d) == [i \in 1..Len(ts) |-> [ts[i] EXCEPT !.left = @ - d]]
NoDue == \A i \in 1..Len(timers) : timers[i].left > 0

\* index of the callback that runs next: the earliest due, first scheduled
NextDue(ts) ==
    CHOOSE i \in 1..Len(ts) :
        /\ ts[i].left <= 0
        /\ \A j \in 1..Len(ts) :
              ts[j].left <= 0 => (ts[i].left < ts[j].left \/ (ts[i].left = ts[j].left /\ i <= j))

Without(ts, i) == [j \in 1..(Len(ts) - 1) |-> IF j < i THEN ts[j] ELSE ts[j + 1]]

NoClock == [hit |-> -1, trig |-> <<>>, drop |-> -1, dead |-> -1, moved |-> {},
            dash |-> -1, dashLife |-> -1, wallJump |-> -1, left |-> FALSE]
FreshTrig(g) == [t \in 1..Len(g.level.triggers) |-> -1]

\* stopwatches after a handler that took the game from World to g, with d
\* ms of simulated time passing (0 outside a simulated frame)
ClockAfter(g, d) ==
    [hit |-> IF g.ev.hits > 0 THEN 0
             ELSE IF clock.hit < 0 THEN -1 ELSE Min(clock.hit + d, HalfSecond),
     \* time since hp reached 0, while it is 0
     dead |-> IF g.player.hp > 0 THEN -1
              ELSE IF player.hp > 0 \/ clock.dead < 0 THEN 0
              ELSE Min(clock.dead + d, HalfSecond),
     \* ticks without input since the body was in the air at rest
     drop |-> IF g.ev.op = "Tick" /\ g.ev.updated /\ g.ev.idle
                 /\ ~player.grounded /\ ~player.isDashing
              THEN IF player.vy = 0 THEN 1
                   ELSE IF clock.drop >= 1 THEN Min(clock.drop + 1, MaxDrop) ELSE -1
              ELSE -1,
     \* simulated time since the frame of the last wall jump of this level play
     wallJump |-> IF g.ev.jumpKind = "wall" THEN 0
                  ELSE IF clock.wallJump < 0 \/ g.ev.load # "none" THEN -1
                  ELSE Min(clock.wallJump + d, WallJumpLock),
     \* simulated time since the frame of the last dash start
     dash |-> IF g.ev.dashed THEN 0
              ELSE IF clock.dash < 0 THEN -1 ELSE Min(clock.dash + d, DashCooldownTime),
     \* the same, of the body as it is since the last Player.reset
     dashLife |-> IF g.ev.dashed THEN 0
                  ELSE IF clock.dashLife < 0 \/ g.ev.load = "restart" THEN -1
                  ELSE Min(clock.dashLife + d, DashCooldownTime),
     \* the platforms that some frame so far has moved
     moved |-> clock.moved \cup
               (IF g.ev.op = "Tick" /\ g.ev.load = "none"
                THEN {i \in 1..Min(Len(level.platforms), Len(g.level.platforms)) :
                         g.level.platforms[i].x # level.platforms[i].x
                            \/ g.level.platforms[i].y # level.platforms[i].y}
                ELSE {}),
     \* the level was left through its exit since it was last (re)loaded
     left |-> IF g.ev.load # "none" THEN FALSE ELSE (clock.left \/ g.ev.exited),
     trig |-> IF g.ev.load # "none" THEN FreshTrig(g)
              ELSE [t \in 1..Len(clock.trig) |->
                      IF clock.trig[t] < 0
                      THEN (IF t \in g.ev.armed THEN 0 ELSE -1)
                      ELSE Min(clock.trig[t] + d, MaxDelay)]]

(***************************************************************************)
(* Input                                                                   *)
(***************************************************************************)
NoKeys == [left |-> FALSE, right |-> FALSE, jump |-> FALSE, down |-> FALSE, dash |-> FALSE]
KeyLeft == [NoKeys EXCEPT !.left = TRUE]
KeyRight == [NoKeys EXCEPT !.right = TRUE]
KeyJump == [NoKeys EXCEPT !.jump = TRUE]
KeyJumpRight == [NoKeys EXCEPT !.jump = TRUE, !.right = TRUE]
KeyDash == [NoKeys EXCEPT !.dash = TRUE]
KeyJumpLeft == [NoKeys EXCEPT !.jump = TRUE, !.left = TRUE]

(***************************************************************************)
(* Handlers                                                                *)
(***************************************************************************)
\* a handler that took the game to g returns, d ms of simulated time having
\* passed in it
Done(g, d) == Commit(g) /\ clock' = ClockAfter(g, d)

\* Game.draw, trap loop: the beams of the lasers drawn
Beams(lvl) ==
    [i \in {j \in 1..Len(lvl.traps) : lvl.traps[j].type = "laser" /\ ~lvl.traps[j].dormant}
        |-> GetLaserBounds(lvl.traps[i], lvl.platforms)]

\* Game.loop, after Game.update took the game to g1: the frame is drawn and
\* the time nd to the next frame passes for the pending callbacks
Frame(g1, sim, nd) ==
    Done([g1 EXCEPT !.timers = Elapse(@, nd),
                    !.ev.beams = Beams(g1.level),
                    !.ev.dashAfter = IF g1.ev.dashed /\ clock.dashLife >= 0
                                     THEN Min(clock.dashLife + sim, DashCooldownTime)
                                     ELSE -1,
                    !.ev.hitAfter = IF g1.ev.hits > 0 /\ clock.hit >= 0
                                    THEN Min(clock.hit + sim, HalfSecond)
                                    ELSE -1], sim)

\* Game.loop: one animation frame with input k; nd is the time to the next
Tick(k, nd) ==
    /\ NoDue
    /\ ~ev.halted
    /\ Frame(GameUpdate([Begin("Tick") EXCEPT !.ev.jumpKey = k.jump, !.ev.downKey = k.down,
                                              !.ev.dashKey = k.dash,
                                              !.ev.leftKey = k.left,
                                              !.ev.rightKey = k.right,
                                              !.ev.idle = (k = NoKeys)],
                        k, dt),
             IF state = "play" THEN dt ELSE 0, nd)
    /\ dt' = nd

\* the callback tm runs in game g0
Callback(g0, tm) ==
    IF tm.kind = "gameOver" THEN GameOver(g0)
    ELSE IF g0.state = "play" /\ tm.live
    THEN [g0 EXCEPT !.level.traps[tm.trap].dormant = FALSE]
    ELSE g0

\* the callback with index i of the pending ones is taken off the list
Dequeue(g, i) ==
    [g EXCEPT !.timers = Without(@, i),
              !.ev.fired = g.timers[i].kind,
              !.ev.firedOld = g.timers[i].old,
              !.ev.firedTrap = g.timers[i].trap]

\* a due setTimeout callback: deferred trap activation or game over
TimerFire ==
    /\ ~NoDue
    /\ Done(Callback(Dequeue(Begin("TimerFire"), NextDue(timers)),
                     timers[NextDue(timers)]), 0)
    /\ dt' = dt

\* the other handlers change the game by a function of its fields
Handle(op, F(_)) == Done(F(Begin(op)), 0) /\ dt' = dt

\* Tab key / edit button
ToggleEditor == Handle("ToggleEditor", EditorToggle)

\* play-test button of the editor
PlayTest == state = "edit" /\ Handle("PlayTest", StartPlayTest)

\* stop-test button
StopTest == isTesting /\ state # "edit" /\ Handle("StopTest", StopPlayTest)

\* a shop card is clicked
BuyCardIn(g, c) ==
    HideShop([g EXCEPT !.run = CardEffect([g.run EXCEPT !.stats.currency = @ - CardCost(c)], c)],
             g.pendingIdx)
BuyCard(c) ==
    /\ state = "shop"
    /\ run.stats.currency >= CardCost(c)
    /\ LET F(g) == BuyCardIn(g, c) IN Handle("BuyCard", F)

\* the shop's continue button
SkipShopIn(g) == HideShop(g, g.pendingIdx)
SkipShop == state = "shop" /\ Handle("SkipShop", SkipShopIn)

\* btn-win-next
WinNextIn(g) ==
    IF NextLevelIndex(g) # -1 THEN LMLoadLevel(g, NextLevelIndex(g))
    ELSE [g EXCEPT !.state = "play"]
WinNext == state = "won" /\ Handle("WinNext", WinNextIn)

\* R key on the win screen
RestartKey == state = "won" /\ Handle("RestartKey", RestartLevel)

\* editor, binding mode: a trap is clicked while a trigger is selected
BindIn(g, t, i) ==
    IF \E b \in 1..Len(g.level.triggers[t].bindings) :
            g.level.triggers[t].bindings[b].trapIndex = i
    THEN g
    ELSE [g EXCEPT !.level.triggers[t].bindings = Append(@, Binding(i, 0))]
EditBind(t, i) ==
    /\ state = "edit"
    /\ t \in 1..Len(level.triggers) /\ i \in 1..Len(level.traps)
    /\ LET F(g) == BindIn(g, t, i) IN Handle("EditBind", F)

\* editor, binding list: the delete button of a binding
UnbindIn(g, t, b) == [g EXCEPT !.level.triggers[t].bindings = Without(@, b)]
EditUnbind(t, b) ==
    /\ state = "edit"
    /\ t \in 1..Len(level.triggers) /\ b \in 1..Len(level.triggers[t].bindings)
    /\ LET F(g) == UnbindIn(g, t, b) IN Handle("EditUnbind", F)

\* editor, binding list: the delay input of a binding
DelayIn(g, t, b, d) == [g EXCEPT !.level.triggers[t].bindings[b].delay = d]
EditDelay(t, b, d) ==
    /\ state = "edit"
    /\ t \in 1..Len(level.triggers) /\ b \in 1..Len(level.triggers[t].bindings)
    /\ LET F(g) == DelayIn(g, t, b, d) IN Handle("EditDelay", F)

\* editor, properties panel: the target inputs of the selected platform i
TargetIn(g, i, tx, ty) == [g EXCEPT !.level.platforms[i].tx = tx, !.level.platforms[i].ty = ty]
EditTarget(i, tx, ty) ==
    /\ state = "edit"
    /\ i \in 1..Len(level.platforms)
    /\ LET F(g) == TargetIn(g, i, tx, ty) IN Handle("EditTarget", F)

\* canvas mousedown during play: a platform centred at the world position
\* (wx, wy) is paid for and placed, upright for the right button
PlaceIn(g, wx, wy, upright) ==
    IF g.player.mp >= Or(g.level.settings.platformCost, 10 * MpUnit)
    THEN [g EXCEPT !.player = ConsumeMp(@, Or(g.level.settings.platformCost, 10 * MpUnit)),
                   !.level.platforms =
                       Append(@, IF upright THEN Plat(wx - 100, wy - 500, 200, 1000)
                                 ELSE Plat(wx - 500, wy - 100, 1000, 200)),
                   !.ev.placed = TRUE]
    ELSE g
PlacePlatform(wx, wy, upright) ==
    /\ state = "play" /\ ~editorActive
    /\ LET F(g) == PlaceIn(g, wx, wy, upright) IN Handle("PlacePlatform", F)

(***************************************************************************)
(* Damage: a ledge at the right wall over a pit, spikes down the left wall *)
(* of the pit.  The display's frame rate is fixed during a run.            *)
(***************************************************************************)
LedgeLevel ==
    MakeLevel(DefaultLevelSettings(380, 100),
              <<Plat(340, 500, 40, 200)>>,
              <<Spikes(0, 700, 20, 100, 20)>>,
              <<>>, <<>>, <<Goal(8000, 8000)>>, 8000, 8000, 80, 200, 0, 1)

KeysDamage == {KeyLeft, KeyRight}

InitDamage ==
    /\ Install(Boot(<<LedgeLevel>>, "play"))
    /\ dt \in DtSet
    /\ clock = [NoClock EXCEPT !.trig = FreshTrig(World)]

NextDamage ==
    \/ \E k \in KeysDamage : Tick(k, dt)
    \/ TimerFire

SpecDamage == InitDamage /\ [][NextDamage]_vars

\* C1: a takeDamage call made less than 0.5 s of simulated time after the
\* call that started the invulnerability window leaves hp unchanged
C1_NoSecondHitWithinHalfSecond ==
    ev.loss > 0 => (ev.hitAfter = -1 \/ ev.hitAfter >= HalfSecond)

\* C6 as stated: in every frame in which the body's y exceeds
\* worldHeight + 100 the fall damage takes effect exactly once
C6_FallDamageTakesEffect ==
    (ev.op = "Tick" /\ ev.fell) => ev.fallHits = 1

\* C6 (amended): in every frame in which the body's y exceeds
\* worldHeight + 100 takeDamage is called exactly once for the fall and takes
\* effect exactly if the body is not invulnerable; a body with hp left is at
\* the spawn point with zero velocity at the end of the frame, a body without
\* is left where it fell; in every other frame takeDamage is not called for
\* a fall
C6_FallHandledOnce ==
    ev.op = "Tick" =>
        /\ ev.fell =>
              /\ ev.fallCalls = 1
              /\ ev.fallHits = (IF ev.fallShielded THEN 0 ELSE 1)
              /\ ev.respawned =>
                    /\ player.x = level.spawn.x /\ player.y = level.spawn.y
                    /\ player.vx = 0 /\ player.vy = 0
                    /\ player.hp > 0
              /\ ~ev.respawned =>
                    /\ player.hp = 0
                    /\ player.y > level.settings.worldHeight + FallMargin
        /\ ~ev.fell => (ev.fallCalls = 0 /\ ev.fallHits = 0 /\ ~ev.respawned)

\* the body fell out of the world while invulnerable from the spikes and was
\* put back at the spawn point unharmed by the fall
C6_Witness ==
    /\ ev.op = "Tick" /\ ev.fell /\ ev.fallShielded /\ ev.respawned
    /\ ev.fallCalls = 1 /\ ev.loss = 0

(***************************************************************************)
(* Triggers: a corridor with a trigger volume at its left end and the exit *)
(* (open without goals) at its right end; two hazards out of reach.        *)
(* Hazard 1 is bound to the trigger by a delayed binding, hazard 2 is not  *)
(* bound.  The level is played, edited and play-tested.                    *)
(***************************************************************************)
GateLevel ==
    MakeLevel(DefaultLevelSettings(420, 2000),
              <<Plat(0, 1000, 420, 200)>>,
              <<Spikes(5000, 5000, 100, 100, 20), Spikes(6000, 5000, 100, 100, 20)>>,
              <<>>,
              <<Trigger(0, 600, 30, 400, TRUE, <<Binding(1, 32)>>)>>,
              <<Goal(8000, 8000)>>, 410, 600, 40, 700, 0, 0)

KeysTrigger == {KeyLeft, KeyRight}

InitTrigger ==
    /\ Install(Boot(<<GateLevel>>, "play"))
    /\ dt \in DtSet
    /\ clock = [NoClock EXCEPT !.trig = FreshTrig(World)]

NextTrigger ==
    \/ \E k \in KeysTrigger : Tick(k, dt)
    \/ TimerFire
    \/ ToggleEditor
    \/ PlayTest
    \/ StopTest
    \/ SkipShop
    \/ WinNext
    \/ RestartKey
    \/ EditBind(1, 2)
    \/ EditUnbind(1, 1)

SpecTrigger == InitTrigger /\ [][NextTrigger]_vars

\* binding b of trigger t is the only binding of the level that refers to
\* its hazard, and it is a delayed one
SoleDelayed(lvl, t, b) ==
    /\ lvl.triggers[t].bindings[b].delay > 0
    /\ lvl.triggers[t].bindings[b].trapIndex \in 1..Len(lvl.traps)
    /\ \A t2 \in 1..Len(lvl.triggers) : \A b2 \in 1..Len(lvl.triggers[t2].bindings) :
          lvl.triggers[t2].bindings[b2].trapIndex = lvl.triggers[t].bindings[b].trapIndex
             => (t2 = t /\ b2 = b)

dormantFlags == [i \in 1..Len(level.traps) |-> level.traps[i].dormant]

\* C2: after every frame, a hazard bound only by a delayed binding (delay d)
\* is not dormant once d of simulated time (and so at least d of real time)
\* has passed since the frame in which its trigger was entered, the level
\* not having been loaded since
C2_ActiveFromDelayOn ==
    ev.op = "Tick" =>
        \A t \in 1..Len(level.triggers) : \A b \in 1..Len(level.triggers[t].bindings) :
            (SoleDelayed(level, t, b) /\ clock.trig[t] >= level.triggers[t].bindings[b].delay)
               => ~level.traps[level.triggers[t].bindings[b].trapIndex].dormant

\* C3: right after a handler that loaded, restarted or play-tested the level,
\* exactly the hazards some binding refers to are dormant and no trigger is
\* triggered
C3_FreshAfterLoad ==
    ev.load \in {"load", "restart", "startTest"} =>
        /\ \A i \in 1..Len(level.traps) : level.traps[i].dormant <=> Bound(level, i)
        /\ \A t \in 1..Len(level.triggers) : ~level.triggers[t].triggered

C5_NeverDormantAgain ==
    [][ev'.load = "none" =>
          \A i \in 1..Len(level.traps) : ~level.traps[i].dormant => ~level'.traps[i].dormant]_vars

\* a frame of play with a bound hazard that has been activated
C5_Witness ==
    /\ ev.op = "Tick" /\ ev.load = "none" /\ state = "play"
    /\ \E i \in 1..Len(level.traps) : Bound(level, i) /\ ~level.traps[i].dormant

(***************************************************************************)
(* Landing: a first level whose five goals and exit are at the spawn       *)
(* point, so that its first frame opens the shop with 15 coins, and a      *)
(* second level with a floor to jump on.                                   *)
(***************************************************************************)
CoinLevel ==
    MakeLevel(DefaultLevelSettings(1000, 2000),
              <<Plat(0, 1000, 1000, 200)>>, <<>>, <<>>, <<>>,
              <<Goal(250, 850), Goal(250, 850), Goal(250, 850), Goal(250, 850),
                Goal(250, 850)>>,
              0, 600, 100, 700, 0, 5)

FloorLevel ==
    MakeLevel(DefaultLevelSettings(1000, 2000),
              <<Plat(0, 1000, 1000, 200)>>, <<>>, <<>>, <<>>,
              <<Goal(8000, 8000)>>, 8000, 8000, 100, 600, 0, 1)

KeysLanding == {NoKeys, KeyJump}
CardsLanding == {"dash", "double_jump"}

InitLanding ==
    /\ Install(Boot(<<CoinLevel, FloorLevel>>, "play"))
    /\ dt \in DtSet
    /\ clock = [NoClock EXCEPT !.trig = FreshTrig(World)]

NextLanding ==
    \/ \E k \in KeysLanding : Tick(k, dt)
    \/ \E c \in CardsLanding : BuyCard(c)
    \/ SkipShop

SpecLanding == InitLanding /\ [][NextLanding]_vars

\* C7: at the end of a frame in which the Y pass landed the body on a
\* platform, jumpsRemaining = extraJumps and dashesRemaining = extraDashes
C7_LandingRestoresSkills ==
    (ev.op = "Tick" /\ ev.landed) =>
        /\ player.jumpsRemaining = player.extraJumps
        /\ player.dashesRemaining = player.extraDashes

\* a landing of a body that owns an extra jump
C7_Witness ==
    /\ ev.op = "Tick" /\ ev.landed /\ player.grounded
    /\ player.extraJumps > 0 /\ player.jumpsRemaining = player.extraJumps

(***************************************************************************)
(* Collision: a floor, a wall standing on it, and a second wall that       *)
(* overlaps the first and ends 2 px further right; the platform list is in *)
(* any order.                                                              *)
(***************************************************************************)
StepPlatforms == <<Plat(0, 1000, 720, 200), Plat(500, 0, 200, 1000), Plat(520, 0, 200, 1000)>>

Orders == {o \in [1..3 -> 1..3] : \A i, j \in 1..3 : o[i] = o[j] => i = j}

StepLevel(o) ==
    MakeLevel(DefaultLevelSettings(720, 2000),
              [i \in 1..3 |-> StepPlatforms[o[i]]], <<>>, <<>>, <<>>,
              <<Goal(8000, 8000)>>, 8000, 8000, 120, 700, 0, 1)

KeysCollide == {KeyLeft, KeyRight, KeyJumpRight}

InitCollide ==
    /\ \E o \in Orders : Install(Boot(<<StepLevel(o)>>, "play"))
    /\ dt \in DtSet
    /\ clock = [NoClock EXCEPT !.trig = FreshTrig(World)]

NextCollide == \E k \in KeysCollide : Tick(k, dt)

SpecCollide == InitCollide /\ [][NextCollide]_vars

\* C10: a body that overlaps no platform when Player.update starts overlaps
\* no platform when it returns (the platforms are static)
C10_NoOverlapAfterUpdate ==
    (ev.op = "Tick" /\ ~ev.preOverlap) => ~ev.postOverlap

(***************************************************************************)
(* Scripted motion: a floor and two shuttling platforms, one horizontal    *)
(* and one diagonal, with a frame time that changes from frame to frame.   *)
(* At 125 px/s the step is 1, 2 or 4 px.                                   *)
(***************************************************************************)
ShuttleLevel ==
    MakeLevel(DefaultLevelSettings(8000, 6000),
              <<Plat(0, 1000, 1000, 200),
                Mover(Plat(3000, 500, 500, 100), 125, 140, 0),
                Mover(Plat(5000, 2000, 500, 100), 125, -60, 80)>>,
              <<>>, <<>>, <<>>, <<Goal(8000, 8000)>>, 8000, 8000, 100, 700, 0, 1)

InitMotion ==
    /\ Install(Boot(<<ShuttleLevel>>, "play"))
    /\ dt \in DtSet
    /\ clock = [NoClock EXCEPT !.trig = FreshTrig(World)]

NextMotion == \E nd \in DtSet : Tick(NoKeys, nd)

SpecMotion == InitMotion /\ [][NextMotion]_vars

\* the animation loop keeps running: requestAnimationFrame schedules the next
\* frame at the end of every frame.  A frame is possible in every state here,
\* so this is weak fairness of the frame, WF_vars(NextMotion), written without
\* ENABLED
SpecMotionFair == SpecMotion /\ []<><<NextMotion>>_vars

\* the shuttling platforms of the level
Shuttles == {i \in 1..Len(level.platforms) :
                level.platforms[i].speed > 0
                   /\ (level.platforms[i].tx # 0 \/ level.platforms[i].ty # 0)}

\* where platform q started, and where its base position is
StartOfX(q) == IF q.startX # Undef THEN q.startX ELSE IF q.baseX # Undef THEN q.baseX ELSE q.x
StartOfY(q) == IF q.startY # Undef THEN q.startY ELSE IF q.baseY # Undef THEN q.baseY ELSE q.y
BaseOfX(q) == IF q.baseX # Undef THEN q.baseX ELSE q.x
BaseOfY(q) == IF q.baseY # Undef THEN q.baseY ELSE q.y

\* how far along its way the base position of q is, and the whole way
Progress(q) == Abs(BaseOfX(q) - StartOfX(q)) + Abs(BaseOfY(q) - StartOfY(q))
WholeWay(q) == Abs(q.tx) + Abs(q.ty)

\* the base position of q lies on the segment from its start to its target
OnWay(q) ==
    /\ (BaseOfX(q) - StartOfX(q)) * q.ty = (BaseOfY(q) - StartOfY(q)) * q.tx
    /\ (BaseOfX(q) - StartOfX(q)) * q.tx >= 0
    /\ (BaseOfY(q) - StartOfY(q)) * q.ty >= 0
    /\ Progress(q) <= WholeWay(q)

\* one frame of q, from a to b: strictly nearer to the end it is heading
\* for, and turned around exactly if it has reached it
Advances(a, b) ==
    /\ OnWay(b)
    /\ StartOfX(b) = StartOfX(a) /\ StartOfY(b) = StartOfY(a)
    /\ IF a.movingForward
       THEN Progress(b) > Progress(a) /\ (b.movingForward <=> Progress(b) < WholeWay(b))
       ELSE Progress(b) < Progress(a) /\ (b.movingForward <=> Progress(b) = 0)

\* C8: in every frame each shuttling platform's base position moves strictly
\* towards the end it is heading for, stays on the segment between its start
\* and start + (tx, ty), and turns around exactly when it is at that end; it
\* is at start + (tx, ty) again and again and at its start again and again
C8_PingPong ==
    /\ [][\A i \in Shuttles : Advances(level.platforms[i], level'.platforms[i])]_vars
    /\ \A i \in 2..3 : []<>(/\ Progress(level.platforms[i]) = WholeWay(level.platforms[i])
                            /\ ~level.platforms[i].movingForward)
    /\ \A i \in 2..3 : []<>(/\ Progress(level.platforms[i]) = 0
                            /\ level.platforms[i].movingForward)

\* both platforms are back at their starts, heading out again, after a
\* frame that returned one of them there
C8_Witness ==
    /\ ev.op = "Tick" /\ Shuttles = {2, 3}
    /\ \A i \in Shuttles : /\ level.platforms[i].baseX # Undef
                           /\ level.platforms[i].baseX = level.platforms[i].startX
                           /\ level.platforms[i].baseY = level.platforms[i].startY
                           /\ level.platforms[i].movingForward

(***************************************************************************)
(* Laser beams: a laser pointing right from x = 600 px with nominal length *)
(* 400 px at y = 300 px, and two platforms placed behind, across, in and   *)
(* beyond its path, at, around and off its height, in either list order.   *)
(***************************************************************************)
BeamXs == {5000, 6000, 7000, 9000, 10000, 11000}
BeamYs == {2000, 2500, 3000, 4000}
BeamWidths == {500, 2000}

LaserLevel(x1, y1, w1, x2, y2, w2) ==
    MakeLevel(DefaultLevelSettings(12000, 6000),
              <<Plat(0, 5000, 1000, 200), Plat(x1, y1, w1, 1000), Plat(x2, y2, w2, 1000)>>,
              <<Laser(8000, 3000, 4000, 0, 20)>>, <<>>, <<>>,
              <<Goal(12000, 12000)>>, 12000, 12000, 100, 4700, 0, 1)

InitLaser ==
    /\ \E x1, x2 \in BeamXs : \E y1, y2 \in BeamYs : \E w1, w2 \in BeamWidths :
          Install(Boot(<<LaserLevel(x1, y1, w1, x2, y2, w2)>>, "play"))
    /\ dt = 16
    /\ clock = [NoClock EXCEPT !.trig = FreshTrig(World)]

NextLaser == Tick(NoKeys, dt)

SpecLaser == InitLaser /\ [][NextLaser]_vars

\* the beam of trap 1 has been drawn
BeamDrawn == ev.op = "Tick" /\ 1 \in DOMAIN ev.beams

\* where the beam of trap 1 starts and where it would end unclipped
BeamStartX == level.traps[1].x - level.traps[1].width \div 2
NominalEndX == level.traps[1].x + level.traps[1].width \div 2
SpansBeam(q) == level.traps[1].y >= q.y /\ level.traps[1].y <= q.y + q.height

\* the platforms whose box the unclipped beam passes through
Crossed == {i \in 1..Len(level.platforms) :
               /\ SpansBeam(level.platforms[i])
               /\ level.platforms[i].x < NominalEndX
               /\ level.platforms[i].x + level.platforms[i].width > BeamStartX}

\* the platforms at the beam's height whose left face is in the beam's path
FaceAhead == {i \in 1..Len(level.platforms) :
                 /\ SpansBeam(level.platforms[i])
                 /\ level.platforms[i].x >= BeamStartX
                 /\ level.platforms[i].x < NominalEndX}

Least(S) == CHOOSE m \in S : \A n \in S : m <= n

\* C9 as stated: whenever the unclipped beam of a laser with rotation 0
\* passes through a platform's box, the beam ends at the left face of such
\* a platform, and the beam is never longer than its nominal length
C9_ClippedAtCrossedPlatform ==
    BeamDrawn =>
        /\ Crossed # {} => \E i \in Crossed : ev.beams[1].endX = level.platforms[i].x
        /\ ev.beams[1].endX - ev.beams[1].startX <= level.traps[1].width

\* C9: the beam of a laser with rotation 0 starts at its nominal start and
\* ends at the nearest left face that lies in its path, from its start up to
\* but not including its nominal end, of a platform whose vertical extent
\* contains the beam's y, and at its nominal end if there is none; a
\* platform the beam starts inside of does not clip it
C9_ClippedAtNearestFaceAhead ==
    BeamDrawn =>
        /\ ev.beams[1].startX = BeamStartX
        /\ ev.beams[1].startY = level.traps[1].y /\ ev.beams[1].endY = level.traps[1].y
        /\ ev.beams[1].endX =
              Least({NominalEndX} \cup {level.platforms[i].x : i \in FaceAhead})
        /\ ev.beams[1].endX >= ev.beams[1].startX
        /\ ev.beams[1].endX - ev.beams[1].startX <= level.traps[1].width

\* the beam starts inside one platform and is cut short by the other
C9_Witness ==
    /\ BeamDrawn
    /\ Crossed = {2, 3} /\ FaceAhead = {3}
    /\ ev.beams[1].endX = level.platforms[3].x
    /\ ev.beams[1].endX < NominalEndX

(***************************************************************************)
(* Falling: the body starts at rest in the air, 300 px above a floor, and  *)
(* can fall, fall fast and jump.                                           *)
(***************************************************************************)
KeyDown == [NoKeys EXCEPT !.down = TRUE]

DropLevel ==
    MakeLevel(DefaultLevelSettings(4000, 6000), <<Plat(0, 3300, 4000, 200)>>,
              <<>>, <<>>, <<>>, <<Goal(8000, 8000)>>, 8000, 8000, 1000, 0, 0, 1)

KeysFall == {NoKeys, KeyDown, KeyJump}

InitFall ==
    /\ Install(Boot(<<DropLevel>>, "play"))
    /\ dt = 16
    /\ clock = [NoClock EXCEPT !.trig = FreshTrig(World)]

NextFall == \E k \in KeysFall : Tick(k, dt)

SpecFall == InitFall /\ [][NextFall]_vars

\* C11: the speed the gravity step of a tick leaves is at most maxFallSpeed
\* when fast fall is not held and at most fastFallSpeed when it is; a body
\* that was at rest in the air n ticks ago and has had no input since falls
\* at min(0.4 n, 9), which is 9 from the 23rd tick on and less before
C11_FallSpeedCapped ==
    (ev.op = "Tick" /\ ev.updated) =>
        /\ ev.vyGravity <= (IF ev.downKey THEN FastFallSpeed ELSE MaxFallSpeed)
        /\ clock.drop >= 1 => ev.vyGravity = Min(Gravity * clock.drop, MaxFallSpeed)
        /\ clock.drop >= 23 => ev.vyGravity = MaxFallSpeed
        /\ (clock.drop >= 1 /\ clock.drop < 23) => ev.vyGravity < MaxFallSpeed

\* the 23rd tick of a free fall from rest
C11_Witness ==
    /\ ev.op = "Tick" /\ ev.updated /\ clock.drop = 23
    /\ ev.vyGravity = MaxFallSpeed /\ player.vy = MaxFallSpeed /\ ~player.grounded

(***************************************************************************)
(* Dormant hazards: shuttling, swaying spikes in the body's way whose       *)
(* trigger is out of reach, a free hazard that shuttles from the start,    *)
(* and deadly spikes that the trigger they surround wakes up.              *)
(***************************************************************************)
Swaying(o, ox, oy, speed) == [o EXCEPT !.oscX = ox, !.oscY = oy, !.oscSpeed = speed]

AmbushLevel ==
    MakeLevel(DefaultLevelSettings(2000, 2000), <<Plat(0, 1000, 2000, 200)>>,
              <<Swaying(Mover(Spikes(600, 850, 200, 200, 40), 125, 40, 0), 0, 20, 50),
                Mover(Spikes(1000, 300, 100, 100, 20), 125, 40, 0),
                Spikes(1300, 850, 600, 200, 100)>>,
              <<>>,
              <<Trigger(1200, 5000, 100, 400, TRUE, <<Binding(1, 0)>>),
                Trigger(1200, 600, 100, 400, TRUE, <<Binding(3, 0)>>)>>,
              <<Goal(8000, 8000)>>, 8000, 8000, 100, 700, 0, 1)

KeysDormant == {KeyLeft, KeyRight}

InitDormant ==
    /\ Install(Boot(<<AmbushLevel>>, "play"))
    /\ dt = 16
    /\ clock = [NoClock EXCEPT !.trig = FreshTrig(World)]

NextDormant ==
    \/ \E k \in KeysDormant : Tick(k, dt)
    \/ TimerFire

SpecDormant == InitDormant /\ [][NextDormant]_vars

\* C12: a hazard whose dormant flag is still set when a tick of the running
\* level is over has not moved in that tick, neither along its path nor by
\* oscillation, and has not called takeDamage
C12_DormantInert ==
    [][(ev'.op = "Tick" /\ ev'.updated /\ ev'.load = "none") =>
          \A i \in 1..Len(level'.traps) :
              level'.traps[i].dormant =>
                  /\ level'.traps[i] = level.traps[i]
                  /\ i \notin ev'.hitBy]_vars

\* the body stands in the dormant spikes while the free hazard has moved
C12_Witness ==
    /\ ev.op = "Tick" /\ ev.updated /\ ev.load = "none"
    /\ level.traps[1].dormant
    /\ TrapHits(level.traps[1], player, level.platforms)
    /\ ~player.invulnerable /\ ev.calls = 0
    /\ level.traps[1].x = 600 /\ level.traps[1].y = 850
    /\ level.traps[2].x # 1000

\* C15: the steps of a tick run in the order body, scripted motion, triggers,
\* hazards, goals: a trigger the body overlaps after its movement in a tick is
\* armed in that tick, and a hazard it binds without delay is awake for that
\* tick's damage evaluation
C15_TriggerSeesMovedBody ==
    (ev.op = "Tick" /\ ev.updated /\ ev.load = "none") =>
        \A t \in 1..Len(level.triggers) :
            Overlap(player, level.triggers[t]) =>
                /\ level.triggers[t].triggered
                /\ \A b \in 1..Len(level.triggers[t].bindings) :
                      level.triggers[t].bindings[b].delay = 0 =>
                          ~level.traps[level.triggers[t].bindings[b].trapIndex].dormant

(***************************************************************************)
(* Health and mana: a floor between two walls, platforms placed by clicks, *)
(* and level settings as typed into the editor's settings form: mana       *)
(* regeneration of 62.5 per second up or down, a platform cost of 10 or    *)
(* of the whole bar.                                                       *)
(***************************************************************************)
StatsLevel(regen, cost) ==
    MakeLevel([DefaultLevelSettings(1000, 2000) EXCEPT !.mpRegen = regen,
                                                       !.platformCost = cost],
              <<Plat(0, 1000, 1000, 200)>>, <<>>, <<>>, <<>>,
              <<Goal(8000, 8000)>>, 8000, 8000, 100, 700, 0, 1)

KeysStats == {KeyLeft, KeyRight}

InitStats ==
    /\ \E regen \in {625, -625} : \E cost \in {10 * MpUnit, 100 * MpUnit} :
          Install(Boot(<<StatsLevel(regen, cost)>>, "play"))
    /\ dt = 16
    /\ clock = [NoClock EXCEPT !.trig = FreshTrig(World)]

\* frames are followed as long as the mana is in range
NextStats ==
    \/ \E k \in KeysStats : player.mp >= 0 /\ Tick(k, dt)
    \/ \E upright \in BOOLEAN :
          /\ Len(level.platforms) < 1 + MaxPlaced
          /\ PlacePlatform(500, 500, upright)

SpecStats == InitStats /\ [][NextStats]_vars

\* C13: in every reachable state 0 <= hp <= maxHp and 0 <= mp <= maxMp
C13_StatsInRange ==
    /\ 0 <= player.hp /\ player.hp <= player.maxHp
    /\ 0 <= player.mp /\ player.mp <= player.maxMp

(***************************************************************************)
(* Jumping: the body on a floor, the jump key pressed, held and released.  *)
(***************************************************************************)
InitJump ==
    /\ Install(Boot(<<FloorLevel>>, "play"))
    /\ dt = 16
    /\ clock = [NoClock EXCEPT !.trig = FreshTrig(World)]

NextJump == \E k \in KeysLanding : Tick(k, dt)

SpecJump == InitJump /\ [][NextJump]_vars

\* C14: a jump is initiated in a tick only if the jump input is held in
\* that tick and was not held in the tick before
C14_JumpOnFreshPressOnly ==
    [][(ev'.op = "Tick" /\ ev'.jumped) =>
          (ev'.jumpKey /\ ~(ev.op = "Tick" /\ ev.jumpKey))]_vars

(***************************************************************************)
(* Death: a floor with deadly spikes to the right of the spawn point, in   *)
(* play and in the editor's play test.                                     *)
(***************************************************************************)
DeathLevel ==
    MakeLevel(DefaultLevelSettings(1000, 2000), <<Plat(0, 1000, 1000, 200)>>,
              <<Spikes(800, 900, 200, 200, 100)>>, <<>>, <<>>,
              <<Goal(8000, 8000)>>, 8000, 8000, 100, 700, 0, 1)

KeysDeath == {KeyLeft, KeyRight}

InitDeath ==
    /\ Install(Boot(<<DeathLevel>>, "play"))
    /\ dt \in DtSet
    /\ clock = [NoClock EXCEPT !.trig = FreshTrig(World)]

NextDeath ==
    \/ \E k \in KeysDeath : Tick(k, dt)
    \/ TimerFire

SpecDeath == InitDeath /\ [][NextDeath]_vars

\* frames and due callbacks keep coming: the animation loop reschedules
\* itself in every frame and the browser runs every timeout that is due.
\* One of the two is possible in every state, so this is weak fairness of
\* NextDeath
SpecDeathFair == SpecDeath /\ []<><<NextDeath>>_vars

TimedLevel ==
    MakeLevel(DefaultLevelSettings(1000, 2000), <<Plat(0, 1000, 1000, 200)>>,
              <<Spikes(5000, 5000, 100, 100, 20), Spikes(6000, 5000, 100, 100, 20)>>,
              <<>>,
              <<Trigger(200, 600, 100, 400, TRUE, <<Binding(1, 0)>>)>>,
              <<Goal(250, 850)>>, 8000, 8000, 100, 700, 96, 1)

KeysTimeout == {KeyLeft, KeyRight}

InitTimeout ==
    /\ Install(Boot(<<TimedLevel>>, "play"))
    /\ dt \in DtSet
    /\ clock = [NoClock EXCEPT !.trig = FreshTrig(World)]

NextTimeout ==
    \/ run.stats.currency < MaxCoins /\ \E k \in KeysTimeout : Tick(k, dt)
    \/ ToggleEditor
    \/ PlayTest
    \/ StopTest
    \/ EditBind(1, 2)

SpecTimeout == InitTimeout /\ [][NextTimeout]_vars

\* the frame about to run takes the play time past the level's time limit
TimeIsUp ==
    /\ state = "play"
    /\ level.conditions.timeLimit > 0
    /\ playTimer + dt > level.conditions.timeLimit

\* C17: a frame of play that takes the play time past the time limit ends
\* with the level restarted: body at rest at the spawn point, goals
\* uncollected, exit inactive, counters zero, exactly the bound hazards
\* dormant and no trigger triggered, which is how a load and the start of a
\* play test leave them
C17_TimeLimitRestarts ==
    [][(TimeIsUp /\ ev'.op = "Tick") =>
          /\ ev'.load = "restart"
          /\ player'.x = level'.spawn.x /\ player'.y = level'.spawn.y
          /\ player'.vx = 0 /\ player'.vy = 0
          /\ \A i \in 1..Len(level'.goals) : ~level'.goals[i].collected
          /\ ~level'.exit.active
          /\ collectedGoals' = 0 /\ playTimer' = 0
          /\ \A i \in 1..Len(level'.traps) : level'.traps[i].dormant <=> Bound(level', i)
          /\ \A t \in 1..Len(level'.triggers) : ~level'.triggers[t].triggered]_vars

(***************************************************************************)
(* Play test round trip: the editor holds a level with a shuttling         *)
(* platform, a shuttling hazard out of reach, a goal and a trigger next to *)
(* the spawn point; mana comes back within a frame.  The level is          *)
(* play-tested, platforms are placed by clicks, and the test is stopped.   *)
(***************************************************************************)
WorkshopLevel ==
    MakeLevel([DefaultLevelSettings(1000, 2000) EXCEPT !.mpRegen = 6250],
              <<Plat(0, 1000, 1000, 200), Mover(Plat(3000, 500, 500, 100), 125, 60, 0)>>,
              <<Mover(Spikes(5000, 5000, 100, 100, 20), 125, 0, 40),
                Spikes(6000, 5000, 100, 100, 20)>>,
              <<>>,
              <<Trigger(200, 600, 100, 400, TRUE, <<Binding(2, 0)>>)>>,
              <<Goal(250, 850)>>, 8000, 8000, 100, 700, 0, 1)

KeysWorkshop == {KeyLeft, KeyRight}

InitWorkshop ==
    /\ Install(Boot(<<WorkshopLevel>>, "edit"))
    /\ dt = 16
    /\ clock = [NoClock EXCEPT !.trig = FreshTrig(World)]

NextWorkshop ==
    \/ PlayTest
    \/ isTesting /\ \E k \in KeysWorkshop : Tick(k, dt)
    \/ \E upright \in BOOLEAN :
          /\ Len(level.platforms) < 2 + MaxPlaced
          /\ PlacePlatform(500, 500, upright)
    \/ StopTest

SpecWorkshop == InitWorkshop /\ [][NextWorkshop]_vars

\* C18: the start of a play test keeps the level data it starts from as the
\* snapshot, frames and clicks of the test leave the snapshot alone, and
\* stopping the test makes the level data equal to the snapshot: positions,
\* motion fields, goal, exit and trigger flags and the platform list
C18_StopRestoresSnapshot ==
    /\ [][ev'.op = "PlayTest" => original' = level]_vars
    /\ [][(isTesting /\ isTesting') => original' = original]_vars
    /\ [][ev'.op = "StopTest" => (level' = original /\ original # NoLevel)]_vars

\* a play test in which a platform was placed, platform and hazard moved,
\* the goal was collected, the exit opened and the trigger fired has just
\* been stopped, and the editor holds the snapshot
C18_Witness ==
    /\ ev.op = "StopTest"
    /\ ev.undone = {"placed", "platform", "hazard", "runtime", "collected", "exit",
                    "triggered"}
    /\ level = original /\ state = "edit" /\ ~isTesting

(***************************************************************************)
(* Retargeting: the editor holds a level whose second platform shuttles    *)
(* 6 px to the right and back.  The level is play-tested, the test is left *)
(* by the stop button or the Tab key, the platform's target is set to 0 or *)
(* back to 6 px in the editor, and the level is play-tested again.         *)
(***************************************************************************)
RetargetLevel ==
    MakeLevel(DefaultLevelSettings(1000, 2000),
              <<Plat(0, 1000, 1000, 200), Mover(Plat(3000, 500, 500, 100), 125, 60, 0)>>,
              <<>>, <<>>, <<>>, <<Goal(8000, 8000)>>, 8000, 8000, 100, 700, 0, 1)

KeysRetarget == {KeyLeft, KeyRight}

InitRetarget ==
    /\ Install(Boot(<<RetargetLevel>>, "edit"))
    /\ dt \in DtSet
    /\ clock = [NoClock EXCEPT !.trig = FreshTrig(World)]

NextRetarget ==
    \/ PlayTest
    \/ isTesting /\ \E k \in KeysRetarget : Tick(k, dt)
    \/ StopTest
    \/ ToggleEditor
    \/ \E tx \in {0, 60} : EditTarget(2, tx, 0)

SpecRetarget == InitRetarget /\ [][NextRetarget]_vars

\* platform i of level lvl has no target and no oscillation
Targetless(lvl, i) ==
    /\ lvl.platforms[i].tx = 0 /\ lvl.platforms[i].ty = 0
    /\ ~(lvl.platforms[i].oscSpeed > 0
           /\ (lvl.platforms[i].oscX # 0 \/ lvl.platforms[i].oscY # 0))

\* C19: a frame of a play test leaves every platform that has no target and
\* no oscillation where it was, whatever the platform did in earlier play
\* tests
C19_TargetlessStaysPut ==
    [][(isTesting /\ state = "play" /\ ev'.op = "Tick" /\ ev'.load = "none") =>
          \A i \in 1..Len(level.platforms) :
              Targetless(level, i) =>
                  /\ level'.platforms[i].x = level.platforms[i].x
                  /\ level'.platforms[i].y = level.platforms[i].y]_vars

\* a frame of a play test with the second platform, which moved in an
\* earlier frame and has a speed, without a target and at the position the
\* editor gave it
C19_Witness ==
    /\ ev.op = "Tick" /\ isTesting /\ state = "play"
    /\ 2 \in clock.moved
    /\ Targetless(level, 2) /\ level.platforms[2].speed > 0
    /\ level.platforms[2].x = RetargetLevel.platforms[2].x

(***************************************************************************)
(* Dash: the first level of the landing scenario and a second level that  *)
(* is a floor 10 px wider than the body; the dash card is bought in the    *)
(* shop after the first level, and on the second level the dash key is     *)
(* pressed, the editor is opened and closed, and the level is play-tested. *)
(***************************************************************************)
CellLevel ==
    MakeLevel(DefaultLevelSettings(400, 2000),
              <<Plat(0, 1000, 400, 200)>>, <<>>, <<>>, <<>>,
              <<Goal(8000, 8000)>>, 8000, 8000, 0, 600, 0, 1)

KeysDash == {NoKeys, KeyDash}

InitDash ==
    /\ Install(Boot(<<CoinLevel, CellLevel>>, "play"))
    /\ dt \in DtSet
    /\ clock = [NoClock EXCEPT !.trig = FreshTrig(World)]

NextDash ==
    \/ \E k \in KeysDash : Tick(k, dt)
    \/ BuyCard("dash")
    \/ SkipShop
    \/ levelIndex = 2 /\ ToggleEditor
    \/ PlayTest
    \/ StopTest

SpecDash == InitDash /\ [][NextDash]_vars

\* the frame about to end started a dash: it was allowed, and it did what a
\* dash start does
DashStartsRight ==
    /\ ev'.dashKey
    /\ player.dashCooldown <= dt
    /\ ~player.isDashing \/ player.dashTimer <= dt
    /\ player.dashesRemaining > 0
    /\ ev'.dashLeft = player.dashesRemaining - 1
    /\ player'.mp >= player.mp
    /\ ev'.load = "none" =>
          /\ player'.isDashing
          /\ player'.dashTimer = DashTime
          /\ player'.dashCooldown = DashCooldownTime

\* C20 as stated: a frame starts a dash only if the key is held, the
\* cooldown has run out, no dash is going on and a dash is left; the start
\* takes one dash, no mana, and sets the 0.2 s dash and the 0.6 s cooldown;
\* any two dash starts are at least 0.6 s of simulated time apart and the
\* number of dashes left is never negative
C20_DashStartsApart ==
    /\ [][(ev'.op = "Tick" /\ ev'.dashed) =>
             /\ DashStartsRight
             /\ clock.dash >= 0 => clock.dash + dt >= DashCooldownTime]_vars
    /\ [][player'.dashesRemaining >= 0]_vars

\* C20, amended: the same, the distance of 0.6 s being that of two dash
\* starts of a body that was not reset (Game.restartLevel) between them
C20_DashStartsApartInOneLife ==
    /\ [][(ev'.op = "Tick" /\ ev'.dashed) =>
             /\ DashStartsRight
             /\ clock.dashLife >= 0 => clock.dashLife + dt >= DashCooldownTime]_vars
    /\ [][player'.dashesRemaining >= 0]_vars

\* a dash has just started, 0.6 s after the one before it, by a body that
\* has no dash left now
C20_Witness ==
    /\ ev.op = "Tick" /\ ev.dashed /\ ev.dashKey
    /\ ev.dashAfter = DashCooldownTime
    /\ clock.dash = 0 /\ clock.dashLife = 0
    /\ player.isDashing /\ player.dashTimer = DashTime
    /\ player.dashCooldown = DashCooldownTime
    /\ ev.dashLeft = 0

(***************************************************************************)
(* Wall: two levels with ten goals and the exit at the spawn point, so     *)
(* that each opens the shop in its first frame with enough coins for a     *)
(* card, and a third level that is a shaft as wide as the body and 15 px   *)
(* higher, whose sides are the world bounds.                               *)
(***************************************************************************)
PurseLevel ==
    MakeLevel(DefaultLevelSettings(1000, 2000),
              <<Plat(0, 1000, 1000, 200)>>, <<>>, <<>>, <<>>,
              [i \in 1..10 |-> Goal(250, 850)],
              0, 600, 100, 700, 0, 10)

ShaftLevel ==
    MakeLevel([DefaultLevelSettings(300, 2000) EXCEPT !.mpRegen = 6250],
              <<Plat(0, 450, 300, 200)>>, <<>>, <<>>, <<>>,
              <<Goal(8000, 8000)>>, 8000, 8000, 0, 150, 0, 1)

KeysWall == {KeyJump, KeyLeft, KeyRight, KeyJumpLeft, KeyJumpRight}
CardsWall == {"double_jump", "wall_climb"}

InitWall ==
    /\ Install(Boot(<<PurseLevel, PurseLevel, ShaftLevel>>, "play"))
    /\ dt = 16
    /\ clock = [NoClock EXCEPT !.trig = FreshTrig(World)]

NextWall ==
    \/ \E k \in KeysWall : Tick(k, dt)
    \/ \E c \in CardsWall : BuyCard(c)
    \/ SkipShop

SpecWall == InitWall /\ [][NextWall]_vars

\* the jump key is down in the frame about to end and was not down in the
\* frame before it
FreshPress == ev'.jumpKey /\ ~(ev.op = "Tick" /\ ev.jumpKey)

\* C21: a frame makes a double jump only if the body was airborne, the jump
\* press is fresh, a jump was left and the body does not slide on a wall;
\* the double jump takes one jump and sets vy to jumpForce * doubleJumpMult
\* (to which the frame's gravity is added); a fresh press of a grounded
\* body makes a standard jump, after which both counters are at their caps
C21_DoubleJumpGated ==
    /\ [][(ev'.op = "Tick" /\ ev'.jumpKind = "double") =>
             /\ ~player.grounded
             /\ FreshPress
             /\ player.jumpsRemaining > 0
             /\ ~ev'.sliding
             /\ ev'.jumpsLeft = player.jumpsRemaining - 1
             /\ ev'.vyGravity = JumpForce * DoubleMult(player) + GravityOf(player)]_vars
    /\ [][(ev'.op = "Tick" /\ ev'.updated /\ player.grounded /\ FreshPress) =>
             /\ ev'.jumpKind = "standard"
             /\ ev'.jumpsLeft = player.extraJumps
             /\ ev'.dashLeft = player.extraDashes]_vars

\* the direction key held in the frame about to end points away from the
\* wall the body touched
HeldAway ==
    \/ player.lastTouchingWall = -1 /\ ev'.rightKey
    \/ player.lastTouchingWall = 1 /\ ev'.leftKey

\* C22: a frame makes a wall jump only if the body was airborne and touched
\* a wall, the jump press is fresh and the held direction points away from
\* the wall; the wall jump sets vy to jumpForce (to which the frame's
\* gravity is added) and vx to 1.5 * speed away from the wall, puts both
\* counters at their caps and clears lastTouchingWall; in the frames of the
\* 0.2 s after it the controls leave vx as it was, a further wall jump apart
C22_WallJumpGated ==
    /\ [][(ev'.op = "Tick" /\ ev'.jumpKind = "wall") =>
             /\ ~player.grounded
             /\ player.lastTouchingWall # 0
             /\ FreshPress
             /\ HeldAway
             /\ ev'.vyGravity = JumpForce + GravityOf(player)
             /\ ev'.vxControl = -player.lastTouchingWall * ((SpeedOf(player) * 15) \div 10)
             /\ ev'.jumpsLeft = player.extraJumps
             /\ ev'.dashLeft = player.extraDashes
             /\ ev'.wallControl = 0]_vars
    /\ [][(ev'.op = "Tick" /\ ev'.updated /\ ev'.jumpKind # "wall"
            /\ clock.wallJump >= 0 /\ clock.wallJump + dt <= WallJumpLock) =>
             ev'.vxControl = player.vx]_vars

(***************************************************************************)
(* Paying for the climb: a shaft as wide as the body in a level without    *)
(* mana regeneration, where one placed platform costs 99 mana.             *)
(***************************************************************************)
ClimbLevel ==
    MakeLevel([DefaultLevelSettings(300, 2000) EXCEPT !.mpRegen = 0,
                                                      !.platformCost = 99 * MpUnit],
              <<Plat(0, 450, 300, 200)>>, <<>>, <<>>, <<>>,
              <<Goal(8000, 8000)>>, 8000, 8000, 0, 150, 0, 1)

KeysClimb == {KeyLeft, KeyJump, KeyJumpLeft}

InitClimb ==
    /\ Install(Boot(<<PurseLevel, PurseLevel, ClimbLevel>>, "play"))
    /\ dt = 16
    /\ clock = [NoClock EXCEPT !.trig = FreshTrig(World)]

\* in the shaft a body that pays for its climb is followed from the moment
\* the placed platform has taken its mana down to one point
NextClimb ==
    \/ \E k \in KeysClimb :
          /\ (levelIndex = 3 /\ player.wallClimbLevel = 1) => player.mp <= MpUnit
          /\ Tick(k, dt)
    \/ BuyCard("wall_climb")
    \/ SkipShop
    \/ /\ levelIndex = 3 /\ Len(level.platforms) < 2
       /\ PlacePlatform(150, 1500, FALSE)

SpecClimb == InitClimb /\ [][NextClimb]_vars

\* the mana of the body after the regeneration of the frame about to end
Regenerated == RegenStep(player, level.settings, dt).mp

\* C23: with wallClimbLevel = 1 a frame of active climbing takes 1 * dt of
\* mana (one mana per second) from the body, and there is no active
\* climbing in a frame in which the body holds less than that; with
\* wallClimbLevel >= 2 a frame of active climbing takes no mana
C23_ClimbIsPaid ==
    /\ [][(ev'.op = "Tick" /\ ev'.climbing /\ player.wallClimbLevel = 1) =>
             /\ Regenerated >= 10 * dt
             /\ player'.mp = Regenerated - 10 * dt]_vars
    /\ [][(ev'.op = "Tick" /\ ev'.climbing /\ player.wallClimbLevel >= 2) =>
             player'.mp = Regenerated]_vars

(***************************************************************************)
(* Landing and bumping: a floor under a low ceiling beside a pit, and a    *)
(* platform in the pit below the bottom of the world.                      *)
(***************************************************************************)
PitLevel ==
    MakeLevel(DefaultLevelSettings(600, 900),
              <<Plat(0, 650, 300, 200), Plat(0, 0, 300, 200), Plat(0, 2210, 600, 200)>>,
              <<>>, <<>>, <<>>,
              <<Goal(8000, 8000)>>, 8000, 8000, 0, 350, 0, 1)

KeysPit == {KeyLeft, KeyRight, KeyJumpRight}

InitPit ==
    /\ Install(Boot(<<PitLevel>>, "play"))
    /\ dt = 16
    /\ clock = [NoClock EXCEPT !.trig = FreshTrig(World)]

NextPit == \E k \in KeysPit : Tick(k, dt)

SpecPit == InitPit /\ [][NextPit]_vars

\* C24: at the end of a body update grounded is true exactly if the Y pass
\* of the frame resolved an overlap of the falling body with a platform,
\* and then vy = 0 and the bottom edge of the body is the top edge of that
\* platform; a frame whose Y pass met an underside ends with vy = 0 and
\* grounded false
C24_GroundedIffLanded ==
    (ev.op = "Tick" /\ ev.updated) =>
        /\ ev.endGrounded <=> ev.landed
        /\ ev.landed => (ev.endVy = 0 /\ ev.endBottom = ev.landTop)
        /\ ev.bumped => (ev.endVy = 0 /\ ~ev.endGrounded)

(***************************************************************************)
(* A lift: a moving platform that carries the body up a shaft to within    *)
(* less than the body's height of the top of the world.                    *)
(***************************************************************************)
LiftLevel ==
    MakeLevel(DefaultLevelSettings(300, 1000),
              <<Plat(0, 800, 300, 200), Mover(Plat(0, 450, 300, 100), 125, 0, -350)>>,
              <<>>, <<>>, <<>>,
              <<Goal(8000, 8000)>>, 8000, 8000, 0, 150, 0, 1)

KeysLift == {NoKeys, KeyJump, KeyLeft, KeyRight}

InitLift ==
    /\ Install(Boot(<<LiftLevel>>, "play"))
    /\ dt \in DtSet
    /\ clock = [NoClock EXCEPT !.trig = FreshTrig(World)]

NextLift == \E k \in KeysLift : Tick(k, dt)

SpecLift == InitLift /\ [][NextLift]_vars

\* C25: after every frame the body is inside the world horizontally and
\* not above its top: 0 <= x <= worldWidth - width and y >= 0
C25_BodyInsideWorld ==
    ev.op = "Tick" =>
        /\ 0 <= player.x
        /\ player.x <= level.settings.worldWidth - player.width
        /\ player.y >= 0

(***************************************************************************)
(* Patrolling hazards: spikes that shuttle towards a wall, the end of      *)
(* their way so near the wall that the spikes' box reaches into it, and    *)
(* spikes that shuttle towards the floor, the end of their way beneath it. *)
(***************************************************************************)
PatrolLevel ==
    MakeLevel(DefaultLevelSettings(2000, 2000),
              <<Plat(0, 1000, 2000, 200), Plat(1135, 0, 200, 1000)>>,
              <<Mover(Spikes(1000, 500, 100, 100, 20), 125, 100, 0),
                Mover(Spikes(500, 800, 100, 100, 20), 125, 0, 300)>>,
              <<>>, <<>>,
              <<Goal(8000, 8000)>>, 8000, 8000, 100, 700, 0, 1)

InitPatrol ==
    /\ Install(Boot(<<PatrolLevel>>, "play"))
    /\ dt \in DtSet
    /\ clock = [NoClock EXCEPT !.trig = FreshTrig(World)]

NextPatrol == \E nd \in DtSet : Tick(NoKeys, nd)

SpecPatrol == InitPatrol /\ [][NextPatrol]_vars

Patrols == {i \in 1..Len(level.traps) :
               level.traps[i].speed > 0
                  /\ (level.traps[i].tx # 0 \/ level.traps[i].ty # 0)}

\* the box of hazard t about its base position overlaps platform pl
BoxHits(t, pl) == TrapBoxHits(t, BaseOfX(t), BaseOfY(t), pl)

\* hazard t after the step it is heading for, with nothing in its way
Prospect(t, d) ==
    LinearStep([t EXCEPT !.baseX = BaseOfX(t), !.baseY = BaseOfY(t)], TRUE, <<>>, d)

\* C26: a frame that moves the base position of a shuttling hazard, to the
\* end of its way included, leaves the hazard's box clear of every platform
\* that it was clear of before; and if the box at the position the hazard
\* is heading for in a frame overlaps a platform, the frame leaves the base
\* position as it was and turns the hazard around
C26_HazardStaysClear ==
    /\ [][ev'.op = "Tick" =>
             \A i \in Patrols :
                (BaseOfX(level'.traps[i]) # BaseOfX(level.traps[i])
                    \/ BaseOfY(level'.traps[i]) # BaseOfY(level.traps[i])) =>
                \A j \in 1..Len(level.platforms) :
                   BoxHits(level'.traps[i], level'.platforms[j]) =>
                      BoxHits(level.traps[i], level.platforms[j])]_vars
    /\ [][ev'.op = "Tick" =>
             \A i \in Patrols :
                (\E j \in 1..Len(level'.platforms) :
                    BoxHits(Prospect(level.traps[i], dt), level'.platforms[j])) =>
                /\ BaseOfX(level'.traps[i]) = BaseOfX(level.traps[i])
                /\ BaseOfY(level'.traps[i]) = BaseOfY(level.traps[i])
                /\ level'.traps[i].movingForward # level.traps[i].movingForward]_vars

(***************************************************************************)
(* A train: two platforms side by side that move together, the body        *)
(* standing across the joint.                                              *)
(***************************************************************************)
TrainLevel ==
    MakeLevel(DefaultLevelSettings(1000, 2000),
              <<Plat(0, 800, 1000, 200),
                Mover(Plat(0, 450, 300, 100), 125, 200, 0),
                Mover(Plat(300, 450, 300, 100), 125, 200, 0)>>,
              <<>>, <<>>, <<>>,
              <<Goal(8000, 8000)>>, 8000, 8000, 150, 150, 0, 1)

KeysTrain == {NoKeys, KeyJump}

InitTrain ==
    /\ Install(Boot(<<TrainLevel>>, "play"))
    /\ dt \in DtSet
    /\ clock = [NoClock EXCEPT !.trig = FreshTrig(World)]

NextTrain == \E k \in KeysTrain : Tick(k, dt)

SpecTrain == InitTrain /\ [][NextTrain]_vars

\* the platforms that move
Movers == {i \in 1..Len(level.platforms) :
              level.platforms[i].speed > 0 \/ level.platforms[i].oscSpeed > 0}

\* the body is on platform i as the frame about to end has moved it:
\* over it horizontally, its bottom edge within the band about the
\* platform's top edge, and not rising
Rides(i) ==
    /\ player.vy >= 0
    /\ player.x + player.width > level'.platforms[i].x
    /\ player.x < level'.platforms[i].x + level'.platforms[i].width
    /\ Abs((player.y + player.height) - level'.platforms[i].y) < CarryBand

\* the body was moved by just what platform i moved in the frame about to end
CarriedBy(i) ==
    /\ ev'.carryX = level'.platforms[i].x - level.platforms[i].x
    /\ ev'.carryY = level'.platforms[i].y - level.platforms[i].y

\* C27: in a frame the platforms move the body by the displacement of a
\* moving platform that it is on, they leave it where it is if it is on
\* none, and they never move it by more than one platform's displacement
C27_CarriedByOnePlatform ==
    [][(ev'.op = "Tick" /\ ev'.updated) =>
          /\ \A i \in Movers : Rides(i) => CarriedBy(i)
          /\ (\A i \in Movers : ~Rides(i)) => (ev'.carryX = 0 /\ ev'.carryY = 0)
          /\ \/ ev'.carryX = 0 /\ ev'.carryY = 0
             \/ \E i \in Movers : CarriedBy(i)]_vars

\* how many deferred activations are pending in the timer queue q
TrapTimers(q) == Cardinality({n \in 1..Len(q) : q[n].kind = "trap"})

\* C28: a one-shot trigger does not fire a second time between two loads of
\* the level; a frame in which the body overlaps triggers that are all
\* spent one-shot triggers clears no dormant flag and schedules no
\* deferred activation
C28_OneShotFiresOnce ==
    /\ [][ev'.op = "Tick" =>
             \A t \in ev'.armed : level.triggers[t].oneShot => clock.trig[t] < 0]_vars
    /\ [][(ev'.op = "Tick" /\ ev'.spent # {} /\ ev'.load = "none"
            /\ \A t \in 1..Len(level.triggers) :
                  Overlap(player, level.triggers[t]) => t \in ev'.spent) =>
             /\ ev'.armed = {}
             /\ dormantFlags' = dormantFlags
             /\ TrapTimers(timers') = TrapTimers(timers)]_vars

\* a frame of play in which the body overlapped the spent trigger while the
\* hazard of its delayed binding was still dormant and another hazard was
\* bound to it as well
C28_Witness ==
    /\ ev.op = "Tick" /\ ev.load = "none" /\ state = "play"
    /\ 1 \in ev.spent
    /\ clock.trig[1] > 0
    /\ level.traps[1].dormant
    /\ Len(level.triggers[1].bindings) = 2

(***************************************************************************)
(* Jump pads: a floor in a narrow shaft with a jump pad at its right end,  *)
(* the pad's jumpForce missing, zero, positive or negative, entered with   *)
(* or without the double_jump and dash cards.                              *)
(***************************************************************************)
PadLevel(jf) ==
    MakeLevel(DefaultLevelSettings(340, 2000),
              <<Plat(0, 650, 340, 200)>>, <<>>, <<Pad(320, 450, 20, jf)>>, <<>>,
              <<Goal(8000, 8000)>>, 8000, 8000, 0, 350, 0, 1)

PadForces == {Undef, 0, 50, -150}

KeysPad == {KeyLeft, KeyRight, KeyJumpRight, KeyDash}

CardsPad == {"double_jump", "dash"}

InitPad ==
    /\ \E jf \in PadForces : Install(Boot(<<PurseLevel, PurseLevel, PadLevel(jf)>>, "play"))
    /\ dt = 32
    /\ clock = [NoClock EXCEPT !.trig = FreshTrig(World)]

NextPad ==
    \/ \E k \in KeysPad : Tick(k, dt)
    \/ \E c \in CardsPad : BuyCard(c)
    \/ SkipShop

SpecPad == InitPad /\ [][NextPad]_vars

\* C29: a frame in which the body touches a jump pad gives it, at the
\* contact, an upward vy: the pad's jumpForce if that is a negative number,
\* the default pad force if it is missing, zero or positive; the contact
\* leaves grounded false and both counters at their caps
C29_PadThrowsUp ==
    [][(ev'.op = "Tick" /\ ev'.padded) =>
          /\ ev'.padVy < 0
          /\ ev'.padVy = IF ev'.padForce = Undef \/ ev'.padForce >= 0
                         THEN DefaultPadForce ELSE ev'.padForce
          /\ ~ev'.padGrounded
          /\ ev'.padJumps = player.extraJumps
          /\ ev'.padDashes = player.extraDashes]_vars

\* a frame in which a body that holds the double_jump and the dash card
\* touched a pad with a positive jumpForce
C29_Witness ==
    /\ ev.op = "Tick" /\ ev.padded
    /\ ev.padForce = 50
    /\ ev.padVy = DefaultPadForce
    /\ player.extraJumps = 1 /\ player.extraDashes = 1
    /\ ev.padJumps = 1 /\ ev.padDashes = 1

(***************************************************************************)
(* Loading incomplete level records: a floor level of which collections    *)
(* are missing and whose numeric settings are all there, all missing or    *)
(* all null.                                                               *)
(***************************************************************************)
SettingNames == {"worldWidth", "worldHeight", "playerMaxHp", "playerMaxMp",
                 "platformCost", "fallDamage", "mpRegen"}

Collections == {"platforms", "traps", "jumppads", "triggers", "goals"}

AllSettings(v) == [f \in SettingNames |-> v]

RawLevel(miss, set) ==
    [MakeLevel(set,
               IF "platforms" \in miss THEN <<>> ELSE <<Plat(0, 1000, 8000, 200)>>,
               <<>>,
               IF "jumppads" \in miss THEN <<>> ELSE <<Pad(600, 800, 200, Undef)>>,
               <<>>,
               IF "goals" \in miss THEN <<>> ELSE <<Goal(8000, 8000)>>,
               8000, 8000, 100, 700, 0, 1)
        EXCEPT !.missing = miss]

RawLevels ==
    {RawLevel(miss, set) :
        miss \in {{}, Collections \ {"platforms"}, {"platforms"}},
        set \in {DefaultLevelSettings(1000, 2000), AllSettings(Undef), AllSettings(Null)}}

KeysLoad == {KeyRight, KeyJumpRight}

InitLoad ==
    /\ \E raw \in RawLevels : Install(Boot(<<raw>>, "play"))
    /\ dt = 16
    /\ clock = [NoClock EXCEPT !.trig = FreshTrig(World)]

NextLoad == \E k \in KeysLoad : Tick(k, dt)

SpecLoad == InitLoad /\ [][NextLoad]_vars

\* the defaults of the numeric settings
DefaultOf(f) ==
    CASE f = "worldWidth" -> WindowWidth
      [] f = "worldHeight" -> WindowHeight
      [] f = "playerMaxHp" -> DefaultMax
      [] f = "playerMaxMp" -> DefaultMax * MpUnit
      [] f = "platformCost" -> 10 * MpUnit
      [] f = "fallDamage" -> DefaultFallDamage
      [] f = "mpRegen" -> 1

\* C30: right after a load every numeric setting that the level record
\* lacks or holds as null has its default and no collection is missing;
\* no frame after it throws, and position, velocity, hp and mp stay numbers
C30_LoadRepairsRecord ==
    /\ ev.load = "load" =>
          /\ level.missing = {}
          /\ \A f \in SettingNames :
                levels[levelIndex].settings[f] \in {Undef, Null} =>
                   level.settings[f] = DefaultOf(f)
    /\ ev.op = "Tick" =>
          /\ ~ev.threw
          /\ {player.x, player.y, player.vx, player.vy, player.hp, player.mp}
                \cap {Undef, Null} = {}

\* Game.loop, the update of one frame of d ms with input k in game g
Updated(g, k, d) ==
    GameUpdate([g EXCEPT !.ev = [EmptyEv("Tick") EXCEPT !.jumpKey = k.jump,
                                                        !.downKey = k.down,
                                                        !.dashKey = k.dash,
                                                        !.leftKey = k.left,
                                                        !.rightKey = k.right,
                                                        !.idle = (k = NoKeys)]],
               k, d)

\* position, velocity and invulnerability of the body of game g
Motion(g) == <<g.player.x, g.player.y, g.player.vx, g.player.vy, g.player.invulnerable>>

\* C31: a span of simulated time leaves the body at the same position, with
\* the same velocity and the same invulnerability, whether one frame of the
\* whole span or two frames of half the span each cover it
C31_SpanSplitsEvenly ==
    (state = "play" /\ dt \in {16, 32}) =>
       \A k \in KeysDamage :
          Motion(Updated(World, k, dt))
             = Motion(Updated(Updated(World, k, dt \div 2), k, dt \div 2))

(***************************************************************************)
(* Pause: the gate level with a slower binding, so that the body can reach *)
(* the exit, and with it the shop and the win screen, while the deferred   *)
(* activation is pending.  Mana does not regenerate.                       *)
(***************************************************************************)
PauseLevel ==
    [GateLevel EXCEPT !.triggers[1].bindings[1].delay = MaxDelay,
                      !.settings.mpRegen = 0]

\* canvas mousedown as it would be if it placed a platform in every state
ClickInAnyState(g, wx, wy, upright) == PlaceIn(g, wx, wy, upright)

\* canvas mousedown with the left or the right button at the world
\* position (wx, wy)
ClickIn(g, wx, wy, upright) ==
    IF g.state = "play" /\ ~g.editorActive THEN PlaceIn(g, wx, wy, upright) ELSE g

MouseDown(wx, wy, upright) ==
    LET F(g) == ClickIn(g, wx, wy, upright) IN Handle("MouseDown", F)

InitPause ==
    /\ Install(Boot(<<PauseLevel>>, "play"))
    /\ dt \in DtSet
    /\ clock = [NoClock EXCEPT !.trig = FreshTrig(World)]

NextPause ==
    \/ \E k \in KeysTrigger : Tick(k, dt)
    \/ TimerFire
    \/ ToggleEditor
    \/ SkipShop
    \/ WinNext
    \/ RestartKey
    \/ \E upright \in BOOLEAN :
          /\ Len(level.platforms) < 1 + MaxPlaced
          /\ MouseDown(5000, 5000, upright)

SpecPause == InitPause /\ [][NextPause]_vars

\* C32: while the state is not "play", a frame leaves the level data and
\* the body as they are, a deferred activation that fires leaves every
\* dormant flag as it is, and a mouse click places no platform and takes
\* no mana
C32_PausedGameIsInert ==
    [][state # "play" =>
          /\ ev'.op = "Tick" => (level' = level /\ player' = player)
          /\ (ev'.op = "TimerFire" /\ ev'.fired = "trap") => dormantFlags' = dormantFlags
          /\ ev'.op = "MouseDown" =>
                (level'.platforms = level.platforms /\ player'.mp = player.mp)]_vars

\* the deferred activation of the level being played has fired in the shop
\* or on the win screen and its hazard is still dormant
C32_Witness ==
    /\ ev.op = "TimerFire" /\ ev.fired = "trap" /\ ~ev.firedOld
    /\ state \in {"shop", "won"}
    /\ level.traps[1].dormant

(***************************************************************************)
(* Goals: a floor with a goal at either end, one of them needed, and the   *)
(* exit next to the right one                                              *)
(***************************************************************************)
GoalsLevel ==
    MakeLevel(DefaultLevelSettings(460, 2000),
              <<Plat(0, 1000, 460, 200)>>, <<>>, <<>>, <<>>,
              <<Goal(-190, 850), Goal(650, 850)>>,
              410, 600, 80, 700, 0, 1)

InitGoals ==
    /\ Install(Boot(<<GoalsLevel>>, "play"))
    /\ dt \in DtSet
    /\ clock = [NoClock EXCEPT !.trig = FreshTrig(World)]

NextGoals ==
    \/ \E k \in KeysTrigger : Tick(k, dt)
    \/ run.stats.currency < MaxCoins /\ ToggleEditor
    \/ PlayTest
    \/ StopTest
    \/ SkipShop
    \/ WinNext
    \/ RestartKey

SpecGoals == InitGoals /\ [][NextGoals]_vars

\* the goals of level lvl that are collected
Collected(lvl) == {i \in 1..Len(lvl.goals) : lvl.goals[i].collected}

\* the exit of the level as the overlap test takes it
ExitBox ==
    [x |-> level.exit.x, y |-> level.exit.y,
     width |-> Or(level.exit.w, 500), height |-> Or(level.exit.h, 800)]

\* C33: during play collectedGoals is the number of collected goals and the
\* exit is active only with the target reached; a frame counts just the
\* goals it collects and collects none again; the level is left (shop or
\* win screen) only by a frame in which the target is reached and the body
\* overlaps the exit, and at most once between two (re)loads
C33_GoalsAndExit ==
    /\ [](state = "play" =>
             /\ collectedGoals = Cardinality(Collected(level))
             /\ level.exit.active => collectedGoals >= level.conditions.targetCount)
    /\ [][(ev'.op = "Tick" /\ ev'.load = "none") =>
             /\ Collected(level) \subseteq Collected(level')
             /\ collectedGoals' - collectedGoals
                   = Cardinality(Collected(level') \ Collected(level))]_vars
    /\ [][(state = "play" /\ state' \in {"shop", "won"}) =>
             /\ ev'.op = "Tick" /\ ev'.exited
             /\ collectedGoals' >= level'.conditions.targetCount
             /\ Overlap(player', ExitBox)]_vars
    /\ [][ev'.exited => ~clock.left]_vars

\* how many game-over callbacks are pending in the timer queue q
GameOvers(q) == Cardinality({n \in 1..Len(q) : q[n].kind = "gameOver"})

\* C34: a game-over is scheduled only by the hit that takes hp from above 0
\* to 0, once; no second one is pending at any time, and every game-over
\* that runs was scheduled in the level play that it ends
C34_OneGameOverPerDeath ==
    /\ [][ev'.go > 0 => (player.hp > 0 /\ ev'.go = 1)]_vars
    /\ [](GameOvers(timers) <= 1)
    /\ [](ev.fired = "gameOver" => ~ev.firedOld)

(***************************************************************************)
(* Relapse: a purse level, then a ledge over a chasm whose fall is deadly. *)
(* The run buys its cards in the shop between the two and loses them with  *)
(* the game-over that follows the fall.                                    *)
(***************************************************************************)
ChasmLevel ==
    MakeLevel([DefaultLevelSettings(600, 600) EXCEPT !.fallDamage = 100],
              <<Plat(0, 500, 200, 200)>>, <<>>, <<>>, <<>>,
              <<Goal(8000, 8000)>>, 8000, 8000, 0, 190, 0, 1)

KeysRelapse == {KeyRight, KeyJumpRight}
CardsRelapse == {"double_jump", "dash"}

InitRelapse ==
    /\ Install(Boot(<<PurseLevel, ChasmLevel>>, "play"))
    /\ dt = 32
    /\ clock = [NoClock EXCEPT !.trig = FreshTrig(World)]

NextRelapse ==
    \/ \E k \in KeysRelapse : Tick(k, dt)
    \/ \E c \in CardsRelapse : BuyCard(c)
    \/ SkipShop
    \/ TimerFire

SpecRelapse == InitRelapse /\ [][NextRelapse]_vars

\* C35: in every state the jumps and dashes left are between 0 and the
\* body's extraJumps and extraDashes, and no frame makes a double jump for
\* a body whose extraJumps is 0
C35_CountersWithinCaps ==
    /\ [](/\ 0 <= player.jumpsRemaining /\ player.jumpsRemaining <= player.extraJumps
          /\ 0 <= player.dashesRemaining /\ player.dashesRemaining <= player.extraDashes)
    /\ [][(ev'.op = "Tick" /\ ev'.jumpKind = "double") => player.extraJumps > 0]_vars

(***************************************************************************)
(* Retry: a purse level, then a floor with a time limit of 96 ms.  The run *)
(* buys a card in the shop between the two; the second level is restarted *)
(* by its time limit and by the editor, and play-tested.                   *)
(***************************************************************************)
RetryLevel == [FloorLevel EXCEPT !.conditions.timeLimit = 96]

CardsRetry == {"double_jump", "dash", "wall_climb", "hp_add"}

InitRetry ==
    /\ Install(Boot(<<PurseLevel, RetryLevel>>, "play"))
    /\ dt = 32
    /\ clock = [NoClock EXCEPT !.trig = FreshTrig(World)]

NextRetry ==
    \/ \E k \in KeysTrigger : Tick(k, dt)
    \/ \E c \in CardsRetry : BuyCard(c)
    \/ SkipShop
    \/ levelIndex = 2 /\ ToggleEditor
    \/ PlayTest
    \/ StopTest

SpecRetry == InitRetry /\ [][NextRetry]_vars

\* C36: right after a restart of the level during an active run the body's
\* extraJumps, extraDashes, wallClimbLevel, maxHp and maxMp are those of
\* the run's modifiers, as RunManager.applyState sets them
C36_RestartKeepsRunStats ==
    (ev.load = "restart" /\ run.runActive) =>
        /\ player.extraJumps = run.mods.extraJumps
        /\ player.extraDashes = run.mods.extraDashes
        /\ player.wallClimbLevel = run.mods.wallClimbLevel
        /\ player.maxHp = run.stats.maxHp + run.mods.maxHpAdd
        /\ player.maxMp = run.stats.maxMp + run.mods.maxMpAdd

(***************************************************************************)
(* Revive: the death level, restarted through the editor while the body    *)
(* lies dead                                                               *)
(***************************************************************************)
InitRevive ==
    /\ Install(Boot(<<DeathLevel>>, "play"))
    /\ dt = 32
    /\ clock = [NoClock EXCEPT !.trig = FreshTrig(World)]

NextRevive ==
    \/ \E k \in KeysDeath : Tick(k, dt)
    \/ TimerFire
    \/ ToggleEditor

SpecRevive == InitRevive /\ [][NextRevive]_vars

\* C37: a game-over callback that runs after the level was restarted or
\* loaded since the lethal hit, or while hp is above 0, neither ends the
\* run nor loads a level
C37_StaleGameOverInert ==
    [][(ev'.fired = "gameOver" /\ (ev'.firedOld \/ player.hp > 0)) =>
          (ev'.load = "none" /\ run' = run /\ levelIndex' = levelIndex
             /\ player' = player)]_vars

(***************************************************************************)
(* Hazards: a floor that ends in a pit, spikes over the spawn point and    *)
(* most of the floor, smaller spikes inside them at the left wall; the     *)
(* fall, the large and the small spikes take 20, 25 and 30 hp              *)
(***************************************************************************)
HazardsLevel ==
    MakeLevel(DefaultLevelSettings(580, 1000),
              <<Plat(0, 1000, 240, 200)>>,
              <<Spikes(0, 850, 100, 100, 30), Spikes(230, 850, 20, 100, 25)>>,
              <<>>, <<>>,
              <<Goal(8000, 8000)>>, 8000, 8000, 80, 700, 0, 1)

InitHazards ==
    /\ Install(Boot(<<HazardsLevel>>, "play"))
    /\ dt = 32
    /\ clock = [NoClock EXCEPT !.trig = FreshTrig(World)]

NextHazards ==
    \/ \E k \in KeysDeath : Tick(k, dt)
    \/ TimerFire

SpecHazards == InitHazards /\ [][NextHazards]_vars

\* what the damage sources of the level take from a body with hp h
Tolls(h) ==
    {Min(h, Or(level.settings.fallDamage, DefaultFallDamage))}
       \cup {Min(h, Or(level.traps[i].damage, DefaultTrapDamage)) : i \in 1..Len(level.traps)}

\* C38: a frame reduces hp at most once, by what one damage source takes
C38_OneSourcePerTick ==
    [][ev'.op = "Tick" =>
          /\ ev'.hits <= 1
          /\ ev'.loss = 0 \/ ev'.loss \in Tolls(player.hp)]_vars

\* a frame in which takeDamage was called more than once has reduced hp once
C38_Witness ==
    /\ ev.op = "Tick" /\ ev.calls >= 2 /\ ev.hits = 1 /\ ev.loss > 0
    /\ player.hp > 0

(***************************************************************************)
(* Loop: the gate level without a reachable exit; its trigger, bound to    *)
(* hazard 1 with a delay of 32 ms, is one-shot or not                      *)
(***************************************************************************)
LoopLevel(oneShot) ==
    [GateLevel EXCEPT !.triggers[1].oneShot = oneShot, !.exit.x = 8000]

InitLoop ==
    /\ \E oneShot \in BOOLEAN : Install(Boot(<<LoopLevel(oneShot)>>, "play"))
    /\ dt \in DtSet
    /\ clock = [NoClock EXCEPT !.trig = FreshTrig(World)]

NextLoop ==
    \/ \E k \in KeysTrigger : Tick(k, dt)
    \/ TimerFire

SpecLoop == InitLoop /\ [][NextLoop]_vars

\* C39: the one delayed binding of the level never has more than one
\* deferred activation pending, and a frame schedules none while one is
\* pending or the hazard is active already
C39_OnePendingPerBinding ==
    /\ [](TrapTimers(timers) <= 1)
    /\ [][(ev'.op = "Tick" /\ (TrapTimers(timers) > 0 \/ ~level.traps[1].dormant)) =>
             TrapTimers(timers') <= TrapTimers(timers)]_vars

====
